---- MODULE Spec2Model ----
(***************************************************************************)
(* A model of the redis-go server: the snapshot (RDB) loader that fills    *)
(* the store at startup, the command dispatcher and its handlers, and the  *)
(* connection handlers that run them concurrently on one shared store.     *)
(*                                                                         *)
(* Strings are sequences of bytes (0..255), so that upper-casing, decimal  *)
(* formatting and parsing, and the binary decoding of the snapshot are     *)
(* computed as the code computes them.  Time is counted in milliseconds    *)
(* since the Unix epoch.                                                   *)
(***************************************************************************)
EXTENDS Integers, Sequences, FiniteSets, TLC

(***************************************************************************)
(* Bounds of the model.                                                    *)
(***************************************************************************)
\* Number of connection handlers (goroutines) running concurrently.
NumConns == 3
\* The clock runs from 0 to MaxTime milliseconds.
MaxTime == 2

Conns == 1..NumConns

(***************************************************************************)
(* Literal texts of the source, as bytes.                                  *)
(***************************************************************************)
PONG == <<43, 80, 79, 78, 71, 13, 10>>   \* "+PONG\r\n"
OK == <<43, 79, 75, 13, 10>>   \* "+OK\r\n"
NullBulk == <<36, 45, 49, 13, 10>>   \* "$-1\r\n"
CRLF == <<13, 10>>   \* "\r\n"
Dollar == <<36>>   \* "$"
Star == <<42>>   \* "*"
ErrUnknownHead == <<45, 69, 82, 82, 32, 117, 110, 107, 110, 111, 119, 110, 32, 99, 111, 109, 109, 97, 110, 100, 32, 39>>   \* "-ERR unknown command '"
ErrQuoteTail == <<39, 13, 10>>   \* "'\r\n"
ErrArityHead == <<45, 69, 82, 82, 32, 119, 114, 111, 110, 103, 32, 110, 117, 109, 98, 101, 114, 32, 111, 102, 32, 97, 114, 103, 117, 109, 101, 110, 116, 115, 32, 102, 111, 114, 32, 39>>   \* "-ERR wrong number of arguments for '"
ErrArityTail == <<39, 32, 99, 111, 109, 109, 97, 110, 100, 13, 10>>   \* "' command\r\n"
ErrEchoArity == <<45, 69, 82, 82, 32, 119, 114, 111, 110, 103, 32, 110, 117, 109, 98, 101, 114, 32, 111, 102, 32, 97, 114, 103, 117, 109, 101, 110, 116, 115, 32, 102, 111, 114, 32, 39, 101, 99, 104, 111, 39, 32, 99, 111, 109, 109, 97, 110, 100, 13, 10>>   \* "-ERR wrong number of arguments for 'echo' command\r\n"
ErrSetArity == <<45, 69, 82, 82, 32, 119, 114, 111, 110, 103, 32, 110, 117, 109, 98, 101, 114, 32, 111, 102, 32, 97, 114, 103, 117, 109, 101, 110, 116, 115, 32, 102, 111, 114, 32, 39, 83, 69, 84, 39, 32, 99, 111, 109, 109, 97, 110, 100, 13, 10>>   \* "-ERR wrong number of arguments for 'SET' command\r\n"
ErrGetArity == <<45, 69, 82, 82, 32, 119, 114, 111, 110, 103, 32, 110, 117, 109, 98, 101, 114, 32, 111, 102, 32, 97, 114, 103, 117, 109, 101, 110, 116, 115, 32, 102, 111, 114, 32, 39, 71, 69, 84, 39, 32, 99, 111, 109, 109, 97, 110, 100, 13, 10>>   \* "-ERR wrong number of arguments for 'GET' command\r\n"
ErrExpiryArity == <<45, 69, 82, 82, 32, 119, 114, 111, 110, 103, 32, 110, 117, 109, 98, 101, 114, 32, 111, 102, 32, 97, 114, 103, 117, 109, 101, 110, 116, 115, 32, 102, 111, 114, 32, 83, 69, 84, 32, 119, 105, 116, 104, 32, 101, 120, 112, 105, 114, 121, 13, 10>>   \* "-ERR wrong number of arguments for SET with expiry\r\n"
ErrUnsupportedOption == <<45, 69, 82, 82, 32, 117, 110, 115, 117, 112, 112, 111, 114, 116, 101, 100, 32, 111, 112, 116, 105, 111, 110, 13, 10>>   \* "-ERR unsupported option\r\n"
ErrInvalidExpiry == <<45, 69, 82, 82, 32, 105, 110, 118, 97, 108, 105, 100, 32, 101, 120, 112, 105, 114, 121, 32, 116, 105, 109, 101, 13, 10>>   \* "-ERR invalid expiry time\r\n"
ErrUnknownSubcommand == <<45, 69, 82, 82, 32, 117, 110, 107, 110, 111, 119, 110, 32, 115, 117, 98, 99, 111, 109, 109, 97, 110, 100, 13, 10>>   \* "-ERR unknown subcommand\r\n"
ErrPattern == <<45, 69, 82, 82, 32, 112, 97, 116, 116, 101, 114, 110, 32, 110, 111, 116, 32, 115, 117, 112, 112, 111, 114, 116, 101, 100, 13, 10>>   \* "-ERR pattern not supported\r\n"
ConfigDirHead == <<42, 50, 13, 10, 36, 51, 13, 10, 100, 105, 114, 13, 10, 36>>   \* "*2\r\n$3\r\ndir\r\n$"
ConfigDbFilenameHead == <<42, 50, 13, 10, 36, 49, 48, 13, 10, 100, 98, 102, 105, 108, 101, 110, 97, 109, 101, 13, 10, 36>>   \* "*2\r\n$10\r\ndbfilename\r\n$"
EmptyArray == <<42, 48, 13, 10>>   \* "*0\r\n"
RDBMagic == <<82, 69, 68, 73, 83, 48, 48, 49, 49>>   \* "REDIS0011"
NameSET == <<83, 69, 84>>   \* "SET"
NameGET == <<71, 69, 84>>   \* "GET"
NamePING == <<80, 73, 78, 71>>   \* "PING"
NameECHO == <<69, 67, 72, 79>>   \* "ECHO"
NameCONFIG == <<67, 79, 78, 70, 73, 71>>   \* "CONFIG"
NameKEYS == <<75, 69, 89, 83>>   \* "KEYS"
OptPX == <<80, 88>>   \* "PX"
ParamDir == <<100, 105, 114>>   \* "dir"
ParamDbFilename == <<100, 98, 102, 105, 108, 101, 110, 97, 109, 101>>   \* "dbfilename"

(***************************************************************************)
(* Library functions the source calls, computed on bytes.                  *)
(***************************************************************************)
\* strings.ToUpper on ASCII: 'a'..'z' become 'A'..'Z', every other byte stays.
ToUpper(s) == [i \in 1..Len(s) |-> IF s[i] >= 97 /\ s[i] <= 122 THEN s[i] - 32 ELSE s[i]]

\* strings.ToLower on ASCII.
ToLower(s) == [i \in 1..Len(s) |-> IF s[i] >= 65 /\ s[i] <= 90 THEN s[i] + 32 ELSE s[i]]

RECURSIVE Digits(_)
\* The decimal digits of n >= 0, most significant first.
Digits(n) == IF n < 10 THEN <<48 + n>> ELSE Append(Digits(n \div 10), 48 + (n % 10))

\* strconv.Itoa, and fmt's %d verb.
Itoa(n) == IF n < 0 THEN <<45>> \o Digits(-n) ELSE Digits(n)

IsDigit(b) == b >= 48 /\ b <= 57

\* A 64-bit integer is kept as its bit pattern in four limbs of 16 bits, the
\* least significant first: the integers of the checker have 32 bits.
Limb == 65536

RECURSIVE MulAddFrom(_, _, _, _)
\* The limbs i..4 of x * m + carry (m and carry at most a few thousand) and
\* the carry out of the top limb: from i = 1, x * m + carry in 64 bits.
MulAddFrom(x, i, m, carry) ==
    IF i > 4 THEN [limbs |-> <<>>, carry |-> carry]
    ELSE LET t == x[i] * m + carry
             rest == MulAddFrom(x, i + 1, m, t \div Limb)
         IN  [limbs |-> <<t % Limb>> \o rest.limbs, carry |-> rest.carry]

\* The sign bit of a 64-bit pattern.
Negative64(x) == x[4] >= 32768

\* The value of a 64-bit pattern below 2^31 - 1, and 2^31 - 1 for every
\* other pattern.
ToInt(x) ==
    IF x[3] = 0 /\ x[4] = 0 /\ x[2] < 32768 THEN x[1] + Limb * x[2] ELSE 2147483647

RECURSIVE ParseUintFrom(_, _, _, _)
\* strconv.ParseUint on digits: the value in 64 bits, and whether it passed
\* 2^64 - 1.
ParseUintFrom(s, i, acc, over) ==
    IF i > Len(s) THEN [mag |-> acc, over |-> over]
    ELSE LET next == MulAddFrom(acc, 1, 10, s[i] - 48)
         IN  IF next.carry # 0 THEN ParseUintFrom(s, i + 1, next.limbs, TRUE)
             ELSE ParseUintFrom(s, i + 1, next.limbs, over)

\* The end of strconv.ParseInt: the magnitude un under its sign is an int64
\* unless it passed 2^63 - 1 (2^63 under a minus sign).  `mag` is the
\* magnitude in 64 bits, `val` the value when it is below 2^31 - 1 in
\* magnitude (beyond, the largest integer of that sign).
SignedInt64(neg, un) ==
    IF \/ un.over
       \/ ~neg /\ Negative64(un.mag)
       \/ neg /\ Negative64(un.mag) /\ un.mag # <<0, 0, 0, 32768>>
    THEN [err |-> TRUE, val |-> 0, mag |-> <<0, 0, 0, 0>>]
    ELSE [err |-> FALSE,
          val |-> IF neg THEN -ToInt(un.mag) ELSE ToInt(un.mag),
          mag |-> un.mag]

\* strconv.ParseInt(s, 10, 64): an optional sign, then one or more digits and
\* nothing else; anything else is an error, and so is a value outside
\* -2^63 .. 2^63 - 1.
ParseInt(s) ==
    LET signed == Len(s) > 0 /\ s[1] \in {43, 45}
        body == IF signed THEN Tail(s) ELSE s
    IN  IF Len(body) = 0 \/ \E i \in 1..Len(body) : ~IsDigit(body[i])
        THEN [err |-> TRUE, val |-> 0, mag |-> <<0, 0, 0, 0>>]
        ELSE SignedInt64(signed /\ s[1] = 45,
                         ParseUintFrom(body, 1, <<0, 0, 0, 0>>, FALSE))

\* fmt.Sprintf("$%d\r\n%s\r\n", len(s), s): a bulk string reply.
Bulk(s) == Dollar \o Itoa(Len(s)) \o CRLF \o s \o CRLF

(***************************************************************************)
(* Time and stored values.                                                 *)
(***************************************************************************)
\* time.Time{}, the zero time ("no deadline"): an instant before the epoch,
\* hence before every reading of the clock.  time.Unix(0, 0) is not zero.
ZeroTime == -1

IsZero(t) == t = ZeroTime

\* t.After(u) and t.Before(u) of package time: strict comparisons.
After(t, u) == t > u
Before(t, u) == t < u

\* A storedValue as held by the sync.Map: `ptr` tells a *storedValue (what
\* setCommand stores and getCommand's type assertion accepts) from a
\* storedValue stored by value.
StoredValue(v, e, p) == [value |-> v, expiresAt |-> e, ptr |-> p]

\* sync.Map.Store, Delete and Load on the map as a function from keys.
MapStore(m, k, x) == [j \in (DOMAIN m) \cup {k} |-> IF j = k THEN x ELSE m[j]]
MapDelete(m, k) == [j \in (DOMAIN m) \ {k} |-> m[j]]
EmptyMap == [j \in {} |-> 0]

(***************************************************************************)
(* The snapshot decoder.  A file is a sequence of bytes; a position p is   *)
(* the index of the next byte to read (offset + 1).  Every reader returns  *)
(* a record with `err` and the position after what it consumed.            *)
(***************************************************************************)
\* The two revisions of the loader in the repository.
BuildApp == "src/app/rdb.go"
BuildRev == "src/unnamed/part_003"
Builds == {BuildApp, BuildRev}

\* readByte: one byte, or an error at the end of the file.
readByte(f, p) ==
    IF p >= 1 /\ p <= Len(f) THEN [err |-> FALSE, b |-> f[p], pos |-> p + 1]
    ELSE [err |-> TRUE, b |-> 0, pos |-> p]

\* io.ReadFull(r, buf) with len(buf) = n: exactly n bytes, or an error.
readFull(f, p, n) ==
    IF n = 0 THEN [err |-> FALSE, bytes |-> <<>>, pos |-> p]
    ELSE IF p >= 1 /\ p + n - 1 <= Len(f)
         THEN [err |-> FALSE, bytes |-> SubSeq(f, p, p + n - 1), pos |-> p + n]
         ELSE [err |-> TRUE, bytes |-> <<>>, pos |-> p]

RECURSIVE BigEndian(_)
\* binary.BigEndian.Uint32 / Uint16: the first byte is the most significant.
BigEndian(bs) ==
    IF Len(bs) = 0 THEN 0
    ELSE 256 * BigEndian(SubSeq(bs, 1, Len(bs) - 1)) + bs[Len(bs)]

RECURSIVE LittleEndian(_)
\* binary.LittleEndian.Uint16 / Uint32 / Uint64: the first byte is the least
\* significant.
LittleEndian(bs) ==
    IF Len(bs) = 0 THEN 0 ELSE bs[1] + 256 * LittleEndian(Tail(bs))

\* A size decoder that keeps the top two bits in a two-byte size.
readSizeEncoded_NoMask(f, p) ==
    LET first == readByte(f, p) IN
    IF first.err THEN [err |-> TRUE, val |-> 0, pos |-> first.pos]
    ELSE CASE first.b \div 64 = 0 ->
                [err |-> FALSE, val |-> first.b % 64, pos |-> first.pos]
           [] first.b \div 64 = 1 ->
                LET second == readByte(f, first.pos) IN
                IF second.err THEN [err |-> TRUE, val |-> 0, pos |-> second.pos]
                ELSE [err |-> FALSE, val |-> first.b * 256 + second.b, pos |-> second.pos]
           [] first.b \div 64 = 2 ->
                LET four == readFull(f, first.pos, 4) IN
                IF four.err THEN [err |-> TRUE, val |-> 0, pos |-> four.pos]
                ELSE [err |-> FALSE, val |-> BigEndian(four.bytes), pos |-> four.pos]
           [] OTHER -> [err |-> TRUE, val |-> 0, pos |-> first.pos]

\* readSizeEncoded: the top two bits of the first byte select the encoding.
readSizeEncoded(f, p) ==
    LET first == readByte(f, p) IN
    IF first.err THEN [err |-> TRUE, val |-> 0, pos |-> first.pos]
    ELSE CASE first.b \div 64 = 0 ->
                [err |-> FALSE, val |-> first.b % 64, pos |-> first.pos]
           [] first.b \div 64 = 1 ->
                LET second == readByte(f, first.pos) IN
                IF second.err THEN [err |-> TRUE, val |-> 0, pos |-> second.pos]
                ELSE [err |-> FALSE, val |-> (first.b % 64) * 256 + second.b,
                      pos |-> second.pos]
           [] first.b \div 64 = 2 ->
                LET four == readFull(f, first.pos, 4) IN
                IF four.err THEN [err |-> TRUE, val |-> 0, pos |-> four.pos]
                ELSE [err |-> FALSE, val |-> BigEndian(four.bytes), pos |-> four.pos]
           [] OTHER -> [err |-> TRUE, val |-> 0, pos |-> first.pos]

\* readStringEncoded: reads a size with readSizeEncoded, then switches on the
\* top bits of the decoded size (length >> 6), not of the first byte.
readStringEncoded(f, p) ==
    LET size == readSizeEncoded(f, p) IN
    IF size.err THEN [err |-> TRUE, str |-> <<>>, pos |-> size.pos]
    ELSE CASE size.val \div 64 \in {0, 1, 2} ->
                LET buf == readFull(f, size.pos, size.val) IN
                IF buf.err THEN [err |-> TRUE, str |-> <<>>, pos |-> buf.pos]
                ELSE [err |-> FALSE, str |-> buf.bytes, pos |-> buf.pos]
           [] size.val \div 64 = 3 ->
                CASE size.val % 64 = 0 ->
                        LET one == readByte(f, size.pos) IN
                        [err |-> one.err, str |-> Itoa(one.b), pos |-> one.pos]
                  [] size.val % 64 = 1 ->
                        LET two == readFull(f, size.pos, 2) IN
                        IF two.err THEN [err |-> TRUE, str |-> <<>>, pos |-> two.pos]
                        ELSE [err |-> FALSE, str |-> Itoa(LittleEndian(two.bytes)),
                              pos |-> two.pos]
                  [] size.val % 64 = 2 ->
                        LET four == readFull(f, size.pos, 4) IN
                        IF four.err THEN [err |-> TRUE, str |-> <<>>, pos |-> four.pos]
                        ELSE [err |-> FALSE, str |-> Itoa(LittleEndian(four.bytes)),
                              pos |-> four.pos]
                  [] OTHER -> [err |-> TRUE, str |-> <<>>, pos |-> size.pos]
           [] OTHER -> [err |-> TRUE, str |-> <<>>, pos |-> size.pos]

\* parseMetadata: two encoded strings, both discarded.
parseMetadata(f, p) ==
    LET name == readStringEncoded(f, p) IN
    IF name.err THEN [err |-> TRUE, pos |-> name.pos]
    ELSE LET value == readStringEncoded(f, name.pos) IN
         [err |-> value.err, pos |-> value.pos]

\* A loader that keeps every entry, whatever its deadline.
NotExpiredAtLoad_KeepAll(expiresAt, t) == TRUE

\* Step 7 (rdb.go) / step 6 (part_003) of parseDatabase: an entry is kept when
\* it has no deadline or the clock is still before its deadline.
NotExpiredAtLoad(expiresAt, t) == IsZero(expiresAt) \/ Before(t, expiresAt)

\* What the loader stores: rdb.go stores a storedValue by value, part_003 a
\* pointer to it.
LoadedValue(build, value, expiresAt) == StoredValue(value, expiresAt, build = BuildRev)

\* The entry-type bytes the key-value loop skips: none in rdb.go, three in
\* part_003.
SkippedEntryBytes(build) == IF build = BuildRev THEN {239, 18, 138} ELSE {}

\* The top-level bytes loadRDBFile skips: none in rdb.go, three in part_003.
SkippedTopBytes(build) == IF build = BuildRev THEN {251, 0, 64} ELSE {}

RECURSIVE parseEntries(_, _, _, _, _)
\* The key-value loop of parseDatabase, from position p with the store st, at
\* clock reading t.  It ends with success at 0xFF and with an error on anything
\* it cannot read; what it stored before an error stays stored.
parseEntries(build, f, p, st, t) ==
    LET tag == readByte(f, p) IN
    IF tag.err THEN [err |-> TRUE, store |-> st]
    ELSE IF tag.b = 255 THEN [err |-> FALSE, store |-> st]
    ELSE IF tag.b \in SkippedEntryBytes(build) THEN parseEntries(build, f, tag.pos, st, t)
    ELSE
      LET secs == readFull(f, tag.pos, 4)
          millis == readFull(f, tag.pos, 8)
          \* expiresAt, and the result of reading the value-type byte
          head ==
            CASE tag.b = 253 ->
                   IF secs.err THEN [err |-> TRUE, expiresAt |-> ZeroTime, vt |-> 0, pos |-> secs.pos]
                   ELSE LET vt == readByte(f, secs.pos) IN
                        [err |-> vt.err, expiresAt |-> 1000 * LittleEndian(secs.bytes),
                         vt |-> vt.b, pos |-> vt.pos]
              [] tag.b = 252 ->
                   IF millis.err THEN [err |-> TRUE, expiresAt |-> ZeroTime, vt |-> 0, pos |-> millis.pos]
                   ELSE LET vt == readByte(f, millis.pos) IN
                        [err |-> vt.err, expiresAt |-> LittleEndian(millis.bytes),
                         vt |-> vt.b, pos |-> vt.pos]
              [] OTHER ->
                   [err |-> FALSE, expiresAt |-> ZeroTime, vt |-> tag.b, pos |-> tag.pos]
      IN
      IF head.err \/ head.vt # 0 THEN [err |-> TRUE, store |-> st]
      ELSE
        LET key == readStringEncoded(f, head.pos) IN
        IF key.err THEN [err |-> TRUE, store |-> st]
        ELSE
          LET value == readStringEncoded(f, key.pos) IN
          IF value.err THEN [err |-> TRUE, store |-> st]
          ELSE parseEntries(build, f, value.pos,
                            IF NotExpiredAtLoad(head.expiresAt, t)
                            THEN MapStore(st, key.str, LoadedValue(build, value.str, head.expiresAt))
                            ELSE st,
                            t)

\* Step 2 of parseDatabase in rdb.go only: a byte 0xC0 and the byte after it
\* are consumed; any other byte is put back.
skipRedisBits(build, f, p) ==
    IF build # BuildApp THEN [err |-> FALSE, pos |-> p]
    ELSE LET b == readByte(f, p) IN
         IF b.err THEN [err |-> TRUE, pos |-> p]
         ELSE IF b.b = 192
              THEN LET v == readByte(f, b.pos) IN [err |-> v.err, pos |-> v.pos]
              ELSE [err |-> FALSE, pos |-> p]

\* The "stream dictionary" step of parseDatabase: after 0xFB one byte is
\* consumed, then an encoded size, then that many bytes are skipped with Seek
\* (which does not fail past the end of the file); any other byte is put back.
skipResizeHint(f, p) ==
    LET b == readByte(f, p) IN
    IF b.err THEN [err |-> TRUE, pos |-> p]
    ELSE IF b.b = 251
         THEN LET one == readByte(f, b.pos) IN
              IF one.err THEN [err |-> TRUE, pos |-> one.pos]
              ELSE LET size == readSizeEncoded(f, one.pos) IN
                   IF size.err THEN [err |-> TRUE, pos |-> size.pos]
                   ELSE [err |-> FALSE, pos |-> size.pos + size.val]
         ELSE [err |-> FALSE, pos |-> p]

\* parseDatabase: the database index, the optional markers, the entries.
parseDatabase(build, f, p, st, t) ==
    LET index == readSizeEncoded(f, p) IN
    IF index.err THEN [err |-> TRUE, store |-> st]
    ELSE LET bits == skipRedisBits(build, f, index.pos) IN
         IF bits.err THEN [err |-> TRUE, store |-> st]
         ELSE LET hint == skipResizeHint(f, bits.pos) IN
              IF hint.err THEN [err |-> TRUE, store |-> st]
              ELSE parseEntries(build, f, hint.pos, st, t)

RECURSIVE parseTopLevel(_, _, _, _, _)
\* The opcode loop of loadRDBFile.
parseTopLevel(build, f, p, st, t) ==
    LET op == readByte(f, p) IN
    IF op.err THEN [err |-> FALSE, store |-> st]          \* io.EOF: break
    ELSE CASE op.b = 250 ->
                LET meta == parseMetadata(f, op.pos) IN
                IF meta.err THEN [err |-> TRUE, store |-> st]
                ELSE parseTopLevel(build, f, meta.pos, st, t)
           [] op.b = 254 -> parseDatabase(build, f, op.pos, st, t)
           [] op.b = 255 -> [err |-> FALSE, store |-> st]
           [] op.b \in SkippedTopBytes(build) -> parseTopLevel(build, f, op.pos, st, t)
           [] OTHER -> [err |-> TRUE, store |-> st]

\* A snapshot file that does not exist.
NoFile == <<-1>>

\* A loader that does not compare the header with the magic bytes.
loadRDBFile_AnyHeader(build, f, st, t) ==
    IF f = NoFile THEN [err |-> FALSE, store |-> st]
    ELSE LET header == readFull(f, 1, 9) IN
         IF header.err THEN [err |-> TRUE, store |-> st]
         ELSE parseTopLevel(build, f, header.pos, st, t)

\* loadRDBFile on the file f (NoFile: os.IsNotExist) into the store st.
loadRDBFile(build, f, st, t) ==
    IF f = NoFile THEN [err |-> FALSE, store |-> st]
    ELSE LET header == readFull(f, 1, 9) IN
         IF header.err \/ header.bytes # RDBMagic THEN [err |-> TRUE, store |-> st]
         ELSE parseTopLevel(build, f, header.pos, st, t)

(***************************************************************************)
(* The request decoder.  A connection's stream is the sequence of bytes    *)
(* the client sends before it closes the connection; a position p is the   *)
(* index of the next unread byte, Len(s) + 1 when the stream is exhausted. *)
(***************************************************************************)
\* strconv.Atoi: an optional sign, then one or more digits and nothing else.
Atoi(str) == ParseInt(str)

\* bufio.Reader.ReadLine (lines shorter than the 4096-byte buffer): io.EOF
\* when nothing is left; otherwise the bytes up to the next "\n" without the
\* "\n" or "\r\n" that ends them, or all the bytes left when no "\n" follows.
ReadLine(s, p) ==
    IF p > Len(s) THEN [err |-> TRUE, line |-> <<>>, pos |-> p]
    ELSE LET ends == {i \in p..Len(s) : s[i] = 10} IN
         IF ends = {} THEN [err |-> FALSE, line |-> SubSeq(s, p, Len(s)), pos |-> Len(s) + 1]
         ELSE LET i == CHOOSE e \in ends : \A o \in ends : e <= o
                  drop == IF i - 1 >= p /\ s[i - 1] = 13 THEN 2 ELSE 1
              IN  [err |-> FALSE, line |-> SubSeq(s, p, i - drop), pos |-> i + 1]

\* io.ReadFull(reader, buf) with len(buf) = n on a stream: exactly n bytes;
\* io.EOF when n > 0 and nothing is left, io.ErrUnexpectedEOF when fewer than
\* n bytes are left (they are consumed).
ioReadFull(s, p, n) ==
    IF n = 0 THEN [err |-> "", bytes |-> <<>>, pos |-> p]
    ELSE IF p + n - 1 <= Len(s)
    THEN [err |-> "", bytes |-> SubSeq(s, p, p + n - 1), pos |-> p + n]
    ELSE IF p > Len(s) THEN [err |-> "EOF", bytes |-> <<>>, pos |-> p]
    ELSE [err |-> "ErrUnexpectedEOF", bytes |-> <<>>, pos |-> Len(s) + 1]

\* A Discard that drops one byte fewer.
Discard_OneLess(s, p, n) == IF p + n - 2 <= Len(s) THEN p + n - 1 ELSE Len(s) + 1

\* reader.Discard(n), its error ignored: up to n bytes are dropped.
Discard(s, p, n) == IF p + n - 1 <= Len(s) THEN p + n ELSE Len(s) + 1

\* A parseRESPInteger that forgets the minimum.
parseRESPInteger_NoMin(str, min) ==
    LET a == Atoi(str) IN
    IF a.err THEN [err |-> TRUE, val |-> 0]
    ELSE [err |-> FALSE, val |-> a.val]

\* parseRESPInteger: Atoi, and the value must be at least min.
parseRESPInteger(str, min) ==
    LET a == Atoi(str) IN
    IF a.err \/ a.val < min THEN [err |-> TRUE, val |-> 0]
    ELSE [err |-> FALSE, val |-> a.val]

\* What parseRESPCommand returns, and where it leaves the stream: a command,
\* io.EOF ("eof"), or another error ("error").
Decoded(kind, command, args, p) ==
    [kind |-> kind, command |-> command, args |-> args, pos |-> p]

RECURSIVE parseElements(_, _, _, _, _, _)
\* The loop of parseRESPCommand over the elements i .. arraySize - 1.
parseElements(s, p, i, arraySize, command, args) ==
    IF i >= arraySize THEN Decoded("command", command, args, p)
    ELSE LET bulkHeader == ReadLine(s, p) IN
         IF bulkHeader.err THEN Decoded("eof", <<>>, <<>>, bulkHeader.pos)
         ELSE IF Len(bulkHeader.line) < 1 \/ bulkHeader.line[1] # Dollar[1]
         THEN Decoded("error", <<>>, <<>>, bulkHeader.pos)
         ELSE LET strLength == parseRESPInteger(Tail(bulkHeader.line), 0) IN
              IF strLength.err THEN Decoded("error", <<>>, <<>>, bulkHeader.pos)
              ELSE LET strBytes == ioReadFull(s, bulkHeader.pos, strLength.val) IN
                   IF strBytes.err = "EOF" THEN Decoded("eof", <<>>, <<>>, strBytes.pos)
                   ELSE IF strBytes.err # "" THEN Decoded("error", <<>>, <<>>, strBytes.pos)
                   ELSE parseElements(s, Discard(s, strBytes.pos, 2), i + 1, arraySize,
                                      IF i = 0 THEN ToUpper(strBytes.bytes) ELSE command,
                                      IF i = 0 THEN args ELSE Append(args, strBytes.bytes))

\* parseRESPCommand on the stream s from position p.
parseRESPCommand(s, p) ==
    LET headerLine == ReadLine(s, p) IN
    IF headerLine.err THEN Decoded("eof", <<>>, <<>>, headerLine.pos)
    ELSE IF Len(headerLine.line) = 0 \/ headerLine.line[1] # Star[1]
    THEN Decoded("error", <<>>, <<>>, headerLine.pos)
    ELSE LET arraySize == parseRESPInteger(Tail(headerLine.line), 1) IN
         IF arraySize.err THEN Decoded("error", <<>>, <<>>, headerLine.pos)
         ELSE parseElements(s, headerLine.pos, 0, arraySize.val, <<>>, <<>>)

\* No "\n" is left in s from position p: ReadLine on a connection the client
\* keeps open waits.
NoLineAt(s, p) == \A i \in p..Len(s) : s[i] # 10

RECURSIVE ElementsStarve(_, _, _, _)
\* The loop of parseRESPCommand over the elements i .. arraySize - 1 comes to
\* a read (ReadLine, io.ReadFull, Discard) for which s has too few bytes.
ElementsStarve(s, p, i, arraySize) ==
    IF i >= arraySize THEN FALSE
    ELSE IF NoLineAt(s, p) THEN TRUE
    ELSE LET bulkHeader == ReadLine(s, p) IN
         IF Len(bulkHeader.line) < 1 \/ bulkHeader.line[1] # Dollar[1] THEN FALSE
         ELSE LET strLength == parseRESPInteger(Tail(bulkHeader.line), 0) IN
              IF strLength.err THEN FALSE
              ELSE IF bulkHeader.pos + strLength.val + 1 > Len(s) THEN TRUE
              ELSE ElementsStarve(s, bulkHeader.pos + strLength.val + 2, i + 1, arraySize)

\* parseRESPCommand on s from position p comes to a read for which s has too
\* few bytes: on a connection the client keeps open the read never returns.
Starved(s, p) ==
    IF NoLineAt(s, p) THEN TRUE
    ELSE LET headerLine == ReadLine(s, p) IN
         IF Len(headerLine.line) = 0 \/ headerLine.line[1] # Star[1] THEN FALSE
         ELSE LET arraySize == parseRESPInteger(Tail(headerLine.line), 1) IN
              IF arraySize.err THEN FALSE
              ELSE ElementsStarve(s, headerLine.pos, 0, arraySize.val)

(***************************************************************************)
(* The command dispatcher and the parts of the handlers that touch nothing *)
(* shared.                                                                 *)
(***************************************************************************)
\* The registry: minArgs, maxArgs and the handler of each command name.
registry ==
    [n \in {NameSET, NameGET, NamePING, NameECHO, NameCONFIG, NameKEYS} |->
        CASE n = NameSET    -> [minArgs |-> 2, maxArgs |-> 4, handler |-> "setCommand"]
          [] n = NameGET    -> [minArgs |-> 1, maxArgs |-> 1, handler |-> "getCommand"]
          [] n = NamePING   -> [minArgs |-> 0, maxArgs |-> 0, handler |-> "pingCommand"]
          [] n = NameECHO   -> [minArgs |-> 1, maxArgs |-> 1, handler |-> "echoCommand"]
          [] n = NameCONFIG -> [minArgs |-> 2, maxArgs |-> 2, handler |-> "configCommand"]
          [] n = NameKEYS   -> [minArgs |-> 1, maxArgs |-> 1, handler |-> "keysCommand"]]

\* An arity test that forgets the upper limit.
ArityOutside_NoMax(n, minArgs, maxArgs) == n < minArgs

\* The arity test of handleCommand.
ArityOutside(n, minArgs, maxArgs) == n < minArgs \/ n > maxArgs

\* handleCommand up to the call of the handler: the handler to call ("none"
\* when the command is answered without one) and the reply in that case.
handleCommand(command, args) ==
    IF ToUpper(command) \notin DOMAIN registry
    THEN [handler |-> "none", reply |-> ErrUnknownHead \o command \o ErrQuoteTail]
    ELSE LET cmd == registry[ToUpper(command)] IN
         IF ArityOutside(Len(args), cmd.minArgs, cmd.maxArgs)
         THEN [handler |-> "none",
               reply |-> ErrArityHead \o ToUpper(command) \o ErrArityTail]
         ELSE [handler |-> cmd.handler, reply |-> <<>>]

pingCommand(args) == PONG

echoCommand(args) == IF Len(args) = 0 THEN ErrEchoArity ELSE Bulk(args[1])

\* A CONFIG handler that answers "dir" with the file name.
configCommand_WrongField(args, cfg) ==
    IF ToUpper(args[1]) = NameGET
    THEN CASE ToLower(args[2]) = ParamDir ->
                ConfigDirHead \o Itoa(Len(cfg.dbFilename)) \o CRLF \o cfg.dbFilename \o CRLF
           [] ToLower(args[2]) = ParamDbFilename ->
                ConfigDbFilenameHead \o Itoa(Len(cfg.dbFilename)) \o CRLF
                    \o cfg.dbFilename \o CRLF
           [] OTHER -> EmptyArray
    ELSE ErrUnknownSubcommand

configCommand(args, cfg) ==
    IF ToUpper(args[1]) = NameGET
    THEN CASE ToLower(args[2]) = ParamDir ->
                ConfigDirHead \o Itoa(Len(cfg.dir)) \o CRLF \o cfg.dir \o CRLF
           [] ToLower(args[2]) = ParamDbFilename ->
                ConfigDbFilenameHead \o Itoa(Len(cfg.dbFilename)) \o CRLF
                    \o cfg.dbFilename \o CRLF
           [] OTHER -> EmptyArray
    ELSE ErrUnknownSubcommand

\* An expiry parser that lets a count of zero through.
parseCommandExpiry_ZeroAllowed(args) ==
    IF Len(args) # 4 THEN [errorResponse |-> ErrExpiryArity, ms |-> 0]
    ELSE IF ToUpper(args[3]) # OptPX THEN [errorResponse |-> ErrUnsupportedOption, ms |-> 0]
    ELSE LET parsed == ParseInt(args[4]) IN
         IF parsed.err \/ parsed.val < 0
         THEN [errorResponse |-> ErrInvalidExpiry, ms |-> 0]
         ELSE [errorResponse |-> <<>>, ms |-> parsed.mag]

\* parseCommandExpiry up to its reading of the clock: the error reply, or the
\* parsed count of milliseconds (an int64, in limbs).
parseCommandExpiry(args) ==
    IF Len(args) # 4 THEN [errorResponse |-> ErrExpiryArity, ms |-> 0]
    ELSE IF ToUpper(args[3]) # OptPX THEN [errorResponse |-> ErrUnsupportedOption, ms |-> 0]
    ELSE LET parsed == ParseInt(args[4]) IN
         IF parsed.err \/ parsed.val <= 0
         THEN [errorResponse |-> ErrInvalidExpiry, ms |-> 0]
         ELSE [errorResponse |-> <<>>, ms |-> parsed.mag]

\* time.Duration(ms) * time.Millisecond: the int64 product ms * 1000000 in
\* nanoseconds, which wraps around modulo 2^64.
DurationOf(ms) == MulAddFrom(MulAddFrom(ms, 1, 1000, 0).limbs, 1, 1000, 0).limbs

\* The clock never reads an instant before the start of the model or after
\* Never: every instant before the start (none of them the zero Time) is
\* ZeroTime - 1, every later one is Never.
Never == 2 * MaxTime + 2

\* time.Now().Add(time.Duration(ms) * time.Millisecond) on the millisecond
\* clock of the model, t being the reading of time.Now().
ExpiryTime(t, ms) ==
    LET d == DurationOf(ms) IN
    IF Negative64(d)
    THEN LET back == MulAddFrom([i \in 1..4 |-> Limb - 1 - d[i]], 1, 1, 1).limbs IN
         IF t - ((ToInt(back) - 1) \div 1000000 + 1) >= 0
         THEN t - ((ToInt(back) - 1) \div 1000000 + 1)
         ELSE ZeroTime - 1
    ELSE IF t + ToInt(d) \div 1000000 < Never
         THEN t + ToInt(d) \div 1000000
         ELSE Never

\* setCommand before it touches the clock or the store: an error reply, or
\* the next step ("set_now" to read the clock for PX, "set_store" otherwise).
setCommandStart(args) ==
    IF Len(args) # 2 /\ Len(args) # 4 THEN [pc |-> "write", reply |-> ErrSetArity]
    ELSE IF Len(args) = 4
         THEN IF parseCommandExpiry(args).errorResponse # <<>>
              THEN [pc |-> "write", reply |-> parseCommandExpiry(args).errorResponse]
              ELSE [pc |-> "set_now", reply |-> <<>>]
         ELSE [pc |-> "set_store", reply |-> <<>>]

\* getCommand's expiry test on a loaded entry with a deadline.
ExpiredForGet(sv, currentTime) == After(currentTime, sv.expiresAt)

RECURSIVE KeysBody(_)
\* The elements of the KEYS reply for the keys in the order ranged over.
KeysBody(keys) == IF Len(keys) = 0 THEN <<>> ELSE Bulk(Head(keys)) \o KeysBody(Tail(keys))

\* keysCommand's reply for the keys in the order storage.Range yielded them.
KeysReply(keys) == Star \o Itoa(Len(keys)) \o CRLF \o KeysBody(keys)

\* The keys storage.Range visits: every key of the map, expired or not.
RangedKeys(m) == DOMAIN m

\* The orders in which a set of keys can be ranged over (the order of a
\* sync.Map's Range is unspecified).
Orders(S) == {q \in [1..Cardinality(S) -> S] : \A k \in S : \E i \in DOMAIN q : q[i] = k}

\* A handler's first step after dispatch: the reply of a handler that touches
\* nothing shared, or the position of its first access to the clock or store.
handlerStart(handler, args, cfg) ==
    CASE handler = "pingCommand"   -> [pc |-> "write", reply |-> pingCommand(args)]
      [] handler = "echoCommand"   -> [pc |-> "write", reply |-> echoCommand(args)]
      [] handler = "configCommand" -> [pc |-> "write", reply |-> configCommand(args, cfg)]
      [] handler = "keysCommand"   ->
            IF args[1] # Star THEN [pc |-> "write", reply |-> ErrPattern]
            ELSE [pc |-> "keys_range", reply |-> <<>>]
      [] handler = "setCommand"    -> setCommandStart(args)
      [] handler = "getCommand"    ->
            IF Len(args) # 1 THEN [pc |-> "write", reply |-> ErrGetArity]
            ELSE [pc |-> "get_load", reply |-> <<>>]

(***************************************************************************)
(* The server as a state machine.                                          *)
(***************************************************************************)
VARIABLES
    build,      \* which revision of the loader is compiled in
    file,       \* the bytes of the snapshot file, or NoFile
    config,     \* config.dir and config.dbFilename
    now,        \* the clock (time.Now()), in milliseconds
    loadedAt,   \* the clock reading at which main called loadRDBFile; NotLoaded before
    storage,    \* the sync.Map: a function from the keys present to stored values
    pc,         \* per connection handler: where it stands
    cur,        \* per connection: the command and arguments being handled
    running,    \* per connection: the handler handleCommand called, or "none"
    sv,         \* per connection: getCommand's loaded entry
    expiresAt,  \* per connection: setCommand's expiresAt
    reply,      \* per connection: the response about to be written
    lastSet,    \* history: per key, what the latest SET stored
    racers,     \* history: per key, the values of the latest two SETs when they overlapped
    want,       \* history: per connection, what a GET found settled when it was received
    loadErr,    \* whether loadRDBFile returned an error (main logs it)
    stream,     \* per connection: the bytes the client sends, or NoStream
    pos,        \* per connection: the position of the reader in the stream
    output,     \* per connection: the replies written to a client that sends a stream
    malformed,  \* history: per connection, whether parseRESPCommand failed with an
                \* error other than io.EOF
    closes,     \* per connection: whether the client closes its end after its bytes
    bytesIn,    \* the bytes handed to a decoder of the snapshot format, or NoBytes
    valueOut    \* what the decoder returned for bytesIn

vars == <<build, file, config, now, loadedAt, storage, pc, cur, running, sv,
          expiresAt, reply, lastSet, racers, want, loadErr, stream, pos, output,
          malformed, closes, bytesIn, valueOut>>

NotLoaded == ZeroTime
NoCommand == [command |-> <<>>, args |-> <<>>]

\* A connection whose requests are drawn one at a time from a set of frames
\* instead of being decoded from a stream of bytes.
NoStream == <<-1>>
NoValue == [value |-> <<>>, expiresAt |-> ZeroTime, ptr |-> FALSE]
NoSet == [value |-> <<>>, expiresAt |-> ZeroTime, overPX |-> FALSE, set |-> FALSE]
NoWant == [settled |-> FALSE, last |-> NoSet, racers |-> {}]

\* The keys and values the clients use.
KeyK == <<107>>     \* "k"
KeyJ == <<106>>     \* "j"
ValV == <<118>>     \* "v"
ValW == <<119>>     \* "w"
AllKeys == {KeyK, KeyJ}

\* A server that accepts connections from the start.
Started_FromBoot == TRUE

\* main has called loadRDBFile and it has returned: connections are accepted.
Started == loadedAt # NotLoaded

\* The key of the command a connection is handling (args[0]).
KeyOf(c) == cur[c].args[1]

\* Connection d is inside a SET on key k that was not rejected.
SetInFlight(d, k) ==
    /\ running[d] = "setCommand"
    /\ KeyOf(d) = k
    /\ \/ pc[d] \in {"set_now", "set_store"}
       \/ pc[d] = "write" /\ reply[d] = OK

\* Connection d is inside a GET on key k.
GetInFlight(d, k) ==
    /\ running[d] = "getCommand"
    /\ pc[d] \in {"get_load", "get_now", "get_delete"}
    /\ KeyOf(d) = k

\* main before loadRDBFile: the flags are parsed and initConfig has run.
InitCore(builds, files, bootTimes, configs, streams) ==
    /\ build \in builds
    /\ file \in files
    /\ config \in configs
    /\ now \in bootTimes
    /\ loadErr = FALSE
    /\ stream \in streams
    /\ pos = [c \in Conns |-> 1]
    /\ output = [c \in Conns |-> <<>>]
    /\ malformed = [c \in Conns |-> FALSE]
    /\ loadedAt = NotLoaded
    /\ storage = EmptyMap
    /\ pc = [c \in Conns |-> "read"]
    /\ cur = [c \in Conns |-> NoCommand]
    /\ running = [c \in Conns |-> "none"]
    /\ sv = [c \in Conns |-> NoValue]
    /\ expiresAt = [c \in Conns |-> ZeroTime]
    /\ reply = [c \in Conns |-> <<>>]
    /\ lastSet = [k \in AllKeys |-> NoSet]
    /\ racers = [k \in AllKeys |-> {}]
    /\ want = [c \in Conns |-> NoWant]

\* No bytes handed to a decoder, and nothing returned by one.
NoBytes == <<-1>>
NoOutput == [op |-> "none", err |-> FALSE, val |-> 0, str |-> <<>>, pos |-> 0]

\* The server with clients that close their end after their last byte.
InitFrom(builds, files, bootTimes, configs, streams) ==
    /\ InitCore(builds, files, bootTimes, configs, streams)
    /\ closes = [c \in Conns |-> TRUE]
    /\ bytesIn = NoBytes
    /\ valueOut = NoOutput

\* The defaults of the flags: "." and "dump.rdb".
DefaultConfig ==
    [dir |-> <<46>>, dbFilename |-> <<100, 117, 109, 112, 46, 114, 100, 98>>]

\* main: loadRDBFile runs once, before the first connection is accepted; its
\* error is logged and the server goes on.
LoadSnapshot ==
    /\ ~Started
    /\ storage' = loadRDBFile(build, file, storage, now).store
    /\ loadErr' = loadRDBFile(build, file, storage, now).err
    /\ loadedAt' = now
    /\ UNCHANGED <<closes, bytesIn, valueOut, build, file, config, now, pc, cur, running, sv, expiresAt,
                   reply, lastSet, racers, want, stream, pos, output, malformed>>

\* The clock advances.
Tick ==
    /\ Started
    /\ now < MaxTime
    /\ now' = now + 1
    /\ UNCHANGED <<closes, bytesIn, valueOut, build, file, config, loadedAt, storage, pc, cur, running, sv,
                   expiresAt, reply, lastSet, racers, want,
                   loadErr, stream, pos, output, malformed>>

\* handleConnection: parseRESPCommand returned the command `parsed`,
\* handleCommand dispatched it, and the handler ran up to its first access to
\* the clock or the store.
Dispatch(c, parsed) ==
    LET found == handleCommand(parsed.command, parsed.args)
        start == IF found.handler = "none"
                 THEN [pc |-> "write", reply |-> found.reply]
                 ELSE handlerStart(found.handler, parsed.args, config)
        k == parsed.args[1]
        isSet == found.handler = "setCommand" /\ start.pc # "write"
        isGet == found.handler = "getCommand" /\ start.pc = "get_load"
        rivals == {d \in Conns \ {c} : SetInFlight(d, k)}
    IN
    /\ Started
    /\ pc[c] = "read"
    /\ pc' = [pc EXCEPT ![c] = start.pc]
    /\ reply' = [reply EXCEPT ![c] = start.reply]
    /\ cur' = [cur EXCEPT ![c] = parsed]
    /\ running' = [running EXCEPT ![c] = found.handler]
    /\ racers' =
         IF isSet
         THEN [racers EXCEPT ![k] =
                 IF /\ start.pc = "set_store"
                    /\ Cardinality(rivals) = 1
                    /\ \A d \in rivals : Len(cur[d].args) = 2
                 THEN {parsed.args[2]} \cup {cur[d].args[2] : d \in rivals}
                 ELSE {}]
         ELSE racers
    /\ want' =
         IF isSet
         THEN [d \in Conns |-> IF GetInFlight(d, k) THEN NoWant ELSE want[d]]
         ELSE IF isGet
         THEN [want EXCEPT ![c] =
                 IF rivals # {} THEN NoWant
                 ELSE [settled |-> TRUE, last |-> lastSet[k], racers |-> racers[k]]]
         ELSE want
    /\ UNCHANGED <<closes, bytesIn, valueOut, build, file, config, now, loadedAt, storage, sv, expiresAt, lastSet,
                   loadErr, stream, output>>

\* A request arrives on a connection that sends frame by frame: element 0
\* upper-cased is the command, the others are the arguments.
Recv(c, frame) ==
    /\ stream[c] = NoStream
    /\ Dispatch(c, [command |-> ToUpper(frame[1]), args |-> Tail(frame)])
    /\ UNCHANGED <<pos, malformed,
                   loadErr, stream, pos, output, malformed>>

\* handleConnection on a stream: parseRESPCommand returns a command, which is
\* dispatched as above.
ParseCommand(c) ==
    LET decoded == parseRESPCommand(stream[c], pos[c]) IN
    /\ closes[c] \/ ~Starved(stream[c], pos[c])
    /\ stream[c] # NoStream
    /\ pc[c] = "read"
    /\ decoded.kind = "command"
    /\ Dispatch(c, [command |-> decoded.command, args |-> decoded.args])
    /\ pos' = [pos EXCEPT ![c] = decoded.pos]
    /\ UNCHANGED malformed

\* handleConnection on a stream: parseRESPCommand returns an error other than
\* io.EOF; it is logged and the loop goes on ("continue").
ParseError(c) ==
    LET decoded == parseRESPCommand(stream[c], pos[c]) IN
    /\ closes[c] \/ ~Starved(stream[c], pos[c])
    /\ Started
    /\ stream[c] # NoStream
    /\ pc[c] = "read"
    /\ decoded.kind = "error"
    /\ pos' = [pos EXCEPT ![c] = decoded.pos]
    /\ malformed' = [malformed EXCEPT ![c] = TRUE]
    /\ UNCHANGED <<closes, bytesIn, valueOut, build, file, config, now, loadedAt, storage, pc, cur, running, sv,
                   expiresAt, reply, lastSet, racers, want, loadErr, stream, output>>

\* handleConnection on a stream: parseRESPCommand returns io.EOF; the loop
\* ends ("break") and the connection is closed.
ParseEOF(c) ==
    LET decoded == parseRESPCommand(stream[c], pos[c]) IN
    /\ closes[c] \/ ~Starved(stream[c], pos[c])
    /\ Started
    /\ stream[c] # NoStream
    /\ pc[c] = "read"
    /\ decoded.kind = "eof"
    /\ pos' = [pos EXCEPT ![c] = decoded.pos]
    /\ pc' = [pc EXCEPT ![c] = "closed"]
    /\ UNCHANGED <<closes, bytesIn, valueOut, build, file, config, now, loadedAt, storage, cur, running, sv,
                   expiresAt, reply, lastSet, racers, want, loadErr, stream, output,
                   malformed>>

\* setCommand with PX: parseCommandExpiry reads the clock.
SetNow(c) ==
    /\ pc[c] = "set_now"
    /\ expiresAt' = [expiresAt EXCEPT
                       ![c] = ExpiryTime(now, parseCommandExpiry(cur[c].args).ms)]
    /\ pc' = [pc EXCEPT ![c] = "set_store"]
    /\ UNCHANGED <<closes, bytesIn, valueOut, build, file, config, now, loadedAt, storage, cur, running, sv,
                   reply, lastSet, racers, want,
                   loadErr, stream, pos, output, malformed>>

\* setCommand: storage.Store of a pointer to a storedValue, then "+OK".
SetStore(c) ==
    /\ pc[c] = "set_store"
    /\ storage' = MapStore(storage, KeyOf(c), StoredValue(cur[c].args[2], expiresAt[c], TRUE))
    /\ reply' = [reply EXCEPT ![c] = OK]
    /\ pc' = [pc EXCEPT ![c] = "write"]
    /\ lastSet' = [lastSet EXCEPT ![KeyOf(c)] =
                     [value |-> cur[c].args[2], expiresAt |-> expiresAt[c],
                      overPX |-> lastSet[KeyOf(c)].set /\ ~IsZero(lastSet[KeyOf(c)].expiresAt),
                      set |-> TRUE]]
    /\ UNCHANGED <<closes, bytesIn, valueOut, build, file, config, now, loadedAt, cur, running, sv, expiresAt,
                   racers, want,
                   loadErr, stream, pos, output, malformed>>

\* getCommand: storage.Load and the type assertion.
GetLoad(c) ==
    /\ pc[c] = "get_load"
    /\ IF KeyOf(c) \notin DOMAIN storage
       THEN /\ reply' = [reply EXCEPT ![c] = NullBulk]
            /\ pc' = [pc EXCEPT ![c] = "write"]
            /\ sv' = sv
       ELSE LET val == storage[KeyOf(c)] IN
            /\ sv' = [sv EXCEPT ![c] = val]
            /\ IF ~val.ptr
               THEN \* val.(*storedValue) fails: "cleaning up"
                    /\ pc' = [pc EXCEPT ![c] = "get_delete"]
                    /\ reply' = reply
               ELSE IF IsZero(val.expiresAt)
               THEN /\ pc' = [pc EXCEPT ![c] = "write"]
                    /\ reply' = [reply EXCEPT ![c] = Bulk(val.value)]
               ELSE /\ pc' = [pc EXCEPT ![c] = "get_now"]
                    /\ reply' = reply
    /\ UNCHANGED <<closes, bytesIn, valueOut, build, file, config, now, loadedAt, storage, cur, running,
                   expiresAt, lastSet, racers, want,
                   loadErr, stream, pos, output, malformed>>

\* getCommand: the entry has a deadline; read the clock and compare.
GetNow(c) ==
    /\ pc[c] = "get_now"
    /\ IF ExpiredForGet(sv[c], now)
       THEN /\ pc' = [pc EXCEPT ![c] = "get_delete"]
            /\ reply' = reply
       ELSE /\ pc' = [pc EXCEPT ![c] = "write"]
            /\ reply' = [reply EXCEPT ![c] = Bulk(sv[c].value)]
    /\ UNCHANGED <<closes, bytesIn, valueOut, build, file, config, now, loadedAt, storage, cur, running, sv,
                   expiresAt, lastSet, racers, want,
                   loadErr, stream, pos, output, malformed>>

\* getCommand: storage.Delete(args[0]), then the null bulk string.
GetDelete(c) ==
    /\ pc[c] = "get_delete"
    /\ storage' = MapDelete(storage, KeyOf(c))
    /\ reply' = [reply EXCEPT ![c] = NullBulk]
    /\ pc' = [pc EXCEPT ![c] = "write"]
    /\ UNCHANGED <<closes, bytesIn, valueOut, build, file, config, now, loadedAt, cur, running, sv, expiresAt,
                   lastSet, racers, want,
                   loadErr, stream, pos, output, malformed>>

\* keysCommand: storage.Range collects the keys, in some order.
KeysRange(c) ==
    /\ pc[c] = "keys_range"
    /\ \E keys \in Orders(RangedKeys(storage)) :
          reply' = [reply EXCEPT ![c] = KeysReply(keys)]
    /\ pc' = [pc EXCEPT ![c] = "write"]
    /\ UNCHANGED <<closes, bytesIn, valueOut, build, file, config, now, loadedAt, storage, cur, running, sv,
                   expiresAt, lastSet, racers, want,
                   loadErr, stream, pos, output, malformed>>

\* A handler that closes the connection after writing an error reply.
Write_ErrorEnds(c) ==
    /\ pc[c] = "write"
    /\ pc' = [pc EXCEPT ![c] = IF reply[c][1] = 45 THEN "closed" ELSE "read"]
    /\ cur' = [cur EXCEPT ![c] = NoCommand]
    /\ running' = [running EXCEPT ![c] = "none"]
    /\ sv' = [sv EXCEPT ![c] = NoValue]
    /\ expiresAt' = [expiresAt EXCEPT ![c] = ZeroTime]
    /\ reply' = [reply EXCEPT ![c] = <<>>]
    /\ want' = [want EXCEPT ![c] = NoWant]
    /\ output' = IF stream[c] = NoStream THEN output
                 ELSE [output EXCEPT ![c] = Append(@, reply[c])]
    /\ UNCHANGED <<closes, bytesIn, valueOut, build, file, config, now, loadedAt, storage, lastSet, racers,
                   loadErr, stream, pos, malformed>>

\* handleConnection: conn.Write(response), then back to parseRESPCommand.
Write(c) ==
    /\ pc[c] = "write"
    /\ pc' = [pc EXCEPT ![c] = "read"]
    /\ cur' = [cur EXCEPT ![c] = NoCommand]
    /\ running' = [running EXCEPT ![c] = "none"]
    /\ sv' = [sv EXCEPT ![c] = NoValue]
    /\ expiresAt' = [expiresAt EXCEPT ![c] = ZeroTime]
    /\ reply' = [reply EXCEPT ![c] = <<>>]
    /\ want' = [want EXCEPT ![c] = NoWant]
    /\ output' = IF stream[c] = NoStream THEN output
                 ELSE [output EXCEPT ![c] = Append(@, reply[c])]
    /\ UNCHANGED <<closes, bytesIn, valueOut, build, file, config, now, loadedAt, storage, lastSet, racers,
                   loadErr, stream, pos, malformed>>

(***************************************************************************)
(* The inputs: snapshot files and request frames.                          *)
(***************************************************************************)
RECURSIVE LittleEndianBytes(_, _)
\* n in `width` bytes, least significant first.
LittleEndianBytes(n, width) ==
    IF width = 0 THEN <<>> ELSE <<n % 256>> \o LittleEndianBytes(n \div 256, width - 1)

\* A string of fewer than 64 bytes with its one-byte length prefix.
RdbString(str) == <<Len(str)>> \o str

\* A value-type-0 entry without expiry, and one tagged 0xFC with its expiry in
\* milliseconds.
RdbEntry(k, v) == <<0>> \o RdbString(k) \o RdbString(v)
RdbEntryMs(e, k, v) == <<252>> \o LittleEndianBytes(e, 8) \o RdbEntry(k, v)

\* Header, select-database opcode with index 0, the entries, end-of-file opcode.
RdbFile(entries) == RDBMagic \o <<254, 0>> \o entries \o <<255>>

\* The same without the end-of-file opcode: the file ends after the entries.
RdbFileOpenEnded(entries) == RDBMagic \o <<254, 0>> \o entries

\* The millisecond expiries the snapshot files carry.
FileExpiries == 0..1

\* Snapshots whose decoding fails after the entry for k and before the entry
\* for j: an unsupported value type, and a file that ends inside an entry.
BrokenFiles ==
    {RdbFile(RdbEntry(KeyK, ValV) \o <<5>> \o RdbEntry(KeyJ, ValW)),
     RdbFileOpenEnded(RdbEntry(KeyK, ValV) \o <<0, 1>>)}

\* Snapshots without the magic header: another version number, a header cut
\* short, an empty file.
BadMagic == <<82, 69, 68, 73, 83, 48, 48, 49, 48>>      \* "REDIS0010"
BadHeaderFiles ==
    {BadMagic \o <<254, 0>> \o RdbEntry(KeyK, ValV) \o <<255>>,
     SubSeq(RDBMagic, 1, 8),
     <<>>}

\* Snapshots with one more byte between the header and the database section.
TopByteFiles ==
    {RDBMagic \o <<b>> \o <<254, 0>> \o RdbEntry(KeyK, ValV) \o <<255>> : b \in {251, 0, 64, 1}}

\* Snapshots whose database section carries the marker 0xFB and two size
\* hints, each below 64 and so encoded in one byte.
HintFiles ==
    {RDBMagic \o <<254, 0, 251, h[1], h[2]>> \o RdbEntry(KeyK, ValV) \o <<255>> :
        h \in {<<1, 0>>, <<1, 1>>, <<2, 2>>, <<0, 3>>}}

\* A snapshot with the bytes 0xC0 0x40 after the database index.
RedisBitsFile == RDBMagic \o <<254, 0, 192, 64>> \o RdbEntry(KeyK, ValV) \o <<255>>

\* Snapshots with a byte b where an entry-type byte is expected, and with b as
\* the value type after a millisecond expiry.
OddTagFiles ==
    UNION {{RDBMagic \o <<254, 0, b>> \o RdbEntry(KeyK, ValV) \o <<255>>,
            RDBMagic \o <<254, 0, 252>> \o LittleEndianBytes(MaxTime + 1, 8) \o <<b>>
                \o RdbString(KeyK) \o RdbString(ValV) \o <<255>>} :
           b \in {239, 18, 138, 5, 1}}

\* The snapshot files of the loader's specification.
Files ==
    {NoFile}
    \cup {RdbFile(RdbEntry(KeyK, ValV)), RdbFileOpenEnded(RdbEntry(KeyK, ValW))}
    \cup {RdbFile(RdbEntryMs(e, KeyK, ValV)) : e \in FileExpiries}
    \cup {RdbFile(RdbEntry(KeyJ, ValW) \o RdbEntryMs(e, KeyK, ValV)) : e \in FileExpiries}
    \cup BrokenFiles \cup BadHeaderFiles
    \cup TopByteFiles \cup HintFiles \cup {RedisBitsFile} \cup OddTagFiles

One == <<49>>                         \* "1"

SetKV == <<NameSET, KeyK, ValV>>
SetKW == <<ToLower(NameSET), KeyK, ValW>>
SetKVPX1 == <<NameSET, KeyK, ValV, ToLower(OptPX), One>>
GetK == <<NameGET, KeyK>>
KeysAll == <<NameKEYS, Star>>

(***************************************************************************)
(* The specifications.                                                     *)
(***************************************************************************)
\* What one connection handler can do, its requests drawn from `frames`.
Handler(c, frames) ==
    \/ \E frame \in frames : Recv(c, frame)
    \/ SetNow(c)
    \/ SetStore(c)
    \/ GetLoad(c)
    \/ GetNow(c)
    \/ GetDelete(c)
    \/ KeysRange(c)
    \/ Write(c)

\* The server without a snapshot file, serving NumConns clients concurrently.
\* Each client sends its requests in any order and any number of times: the
\* first sets a key with a deadline and reads, the second sets the same key
\* without one and reads, the others set it to another value.
Init == InitFrom(Builds, {NoFile}, {0}, {DefaultConfig}, {[c \in Conns |-> NoStream]})

Next ==
    \/ LoadSnapshot
    \/ Tick
    \/ \E c \in Conns : Handler(c, CASE c = 1 -> {SetKVPX1, GetK, KeysAll}
                                        [] c = 2 -> {SetKV, GetK}
                                        [] OTHER -> {SetKW})

Spec == Init /\ [][Next]_vars

SomeText == <<97, 98, 99>>            \* "abc"
Zero == <<48>>                        \* "0"
MinusOne == <<45, 49>>                \* "-1"
NameDEL == <<68, 69, 76>>             \* "DEL"

\* Requests with too few and too many arguments for each command; SET
\* requests that setCommand or parseCommandExpiry rejects (one with the option
\* "EX"); requests served without the store, rejected by a handler, unknown;
\* and well-formed SET, GET and KEYS.
DispatchFrames ==
    {<<NameSET>>, <<ToLower(NameSET), KeyK>>, <<NameSET, KeyK, ValW, OptPX, One, One>>,
     <<NameGET>>, <<ToLower(NameGET), KeyK, KeyK>>,
     <<NamePING, KeyK>>,
     <<NameECHO>>, <<NameECHO, KeyK, KeyK>>,
     <<NameCONFIG>>, <<NameCONFIG, NameGET>>, <<NameCONFIG, NameGET, ParamDir, ParamDir>>,
     <<NameKEYS>>, <<NameKEYS, Star, Star>>}
    \cup {<<NameSET, KeyK, ValW, OptPX>>,
          <<NameSET, KeyK, ValW, <<69, 88>>, One>>,
          <<NameSET, KeyK, ValW, OptPX, SomeText>>,
          <<NameSET, KeyK, ValW, OptPX, Zero>>,
          <<NameSET, KeyK, ValW, OptPX, MinusOne>>,
          <<NameSET, KeyK, ValW, OptPX, <<>> >>}
    \cup {<<NamePING>>, <<NameECHO, SomeText>>,
          <<NameCONFIG, NameGET, ParamDir>>,
          <<NameCONFIG, ToLower(NameGET), ToUpper(ParamDbFilename)>>,
          <<NameCONFIG, NameGET, SomeText>>, <<NameCONFIG, NameSET, ParamDir>>,
          <<NameKEYS, KeyK>>, <<NameDEL, KeyK>>}
    \cup {SetKV, SetKVPX1, GetK, KeysAll}

\* The server without a snapshot file; one client sends every kind of request,
\* well-formed or not, while a second one keeps setting the same key.
NextDispatch ==
    \/ LoadSnapshot
    \/ Tick
    \/ Handler(1, DispatchFrames)
    \/ Handler(2, {SetKW})

\* The directory and file name the server may be started with (-dir,
\* -dbfilename), the defaults among them.
FlagDir == <<47, 100>>                \* "/d"
Configs == {DefaultConfig, [dir |-> FlagDir, dbFilename |-> <<120, 46, 114>>]}

InitDispatch ==
    InitFrom(Builds, {NoFile}, {0}, Configs, {[c \in Conns |-> NoStream]})

SpecDispatch == InitDispatch /\ [][NextDispatch]_vars

\* The server booting from a snapshot file at some clock reading, then serving
\* one client.
InitLoad ==
    InitFrom(Builds, Files, 0..MaxTime, {DefaultConfig}, {[c \in Conns |-> NoStream]})

NextLoad ==
    \/ LoadSnapshot
    \/ Tick
    \/ Handler(1, {GetK, SetKW, KeysAll, SetKVPX1})

SpecLoad == InitLoad /\ [][NextLoad]_vars

RECURSIVE RespElements(_)
\* What a client sends for the elements of a frame: "$L\r\n<L bytes>\r\n" each.
RespElements(elems) ==
    IF Len(elems) = 0 THEN <<>>
    ELSE Dollar \o Itoa(Len(Head(elems))) \o CRLF \o Head(elems) \o CRLF
         \o RespElements(Tail(elems))

\* A well-formed frame: "*N\r\n" and its N elements.
RespFrame(elems) == Star \o Itoa(Len(elems)) \o CRLF \o RespElements(elems)

RECURSIVE RespStream(_)
\* The frames of a script, one after the other.
RespStream(frames) ==
    IF Len(frames) = 0 THEN <<>> ELSE RespFrame(Head(frames)) \o RespStream(Tail(frames))

PingFrame == RespFrame(<<NamePING>>)

\* What the clients of the wire specification send before closing: sequences
\* of well-formed frames, among them an ECHO of "a\r\nb" and a command "X\nY".
WireScripts ==
    {<<>>,
     << <<NamePING>> >>,
     << <<ToLower(NameECHO), SomeText>>, <<NamePING>> >>,
     << <<NameECHO, <<97, 13, 10, 98>> >>, <<NameECHO, <<>> >> >>,
     << <<NameECHO, PingFrame>>, <<NamePING>> >>,
     << SetKV, GetK, <<NameECHO, SomeText>> >>,
     << SetKVPX1, GetK, KeysAll >>,
     << <<NameDEL, KeyK>>, <<NamePING>> >>,
     << <<NameGET>>, <<NameECHO, SomeText>> >>,
     << << <<88, 10, 89>> >>, <<NamePING>> >>}

\* First lines that are not an array header with a count of at least 1.
BadArrayHeaders ==
    {<<>>, NamePING, Star, Star \o <<120>>, Star \o Zero, Star \o MinusOne,
     Star \o One \o <<120>>, Dollar \o One, <<32>> \o Star \o One}

\* Lines that are not an element header with a length of at least 0.
BadBulkHeaders ==
    {<<>>, One, <<35>> \o One, Dollar, Dollar \o <<120>>, Dollar \o MinusOne,
     Dollar \o One \o <<120>>, Star \o One}

\* The frame whose transmission is cut short.
CutFrame == RespFrame(<<NameECHO, <<97, 98>> >>)

\* The streams of the wire specification: the scripts; streams with a
\* malformed frame (a bad first line, a bad header of the first element, a bad
\* header of the second element) followed by a well-formed PING; streams that
\* end inside a frame (every proper prefix of CutFrame, alone and after a
\* complete frame); a frame whose counts carry a sign, which strconv.Atoi
\* accepts.
WireStreams ==
    {RespStream(fs) : fs \in WireScripts}
    \cup {h \o CRLF \o PingFrame : h \in BadArrayHeaders}
    \cup {PingFrame \o h \o CRLF \o PingFrame : h \in BadArrayHeaders}
    \cup {Star \o One \o CRLF \o h \o CRLF \o PingFrame : h \in BadBulkHeaders}
    \cup {Star \o <<50>> \o CRLF \o RespElements(<<NameECHO>>) \o h \o CRLF \o PingFrame :
            h \in BadBulkHeaders}
    \cup {SubSeq(CutFrame, 1, n) : n \in 1..(Len(CutFrame) - 1)}
    \cup {PingFrame \o SubSeq(CutFrame, 1, n) : n \in 1..(Len(CutFrame) - 1)}
    \cup {Star \o <<43>> \o One \o CRLF \o Dollar \o <<43, 52>> \o CRLF \o NamePING \o CRLF}

\* What the handler of a connection that sends a stream can do.
WireHandler(c) ==
    \/ ParseCommand(c)
    \/ ParseError(c)
    \/ ParseEOF(c)
    \/ SetNow(c)
    \/ SetStore(c)
    \/ GetLoad(c)
    \/ GetNow(c)
    \/ GetDelete(c)
    \/ KeysRange(c)
    \/ Write(c)

\* The server without a snapshot file; the first client sends a stream of
\* bytes and closes, the second keeps setting a key.
InitWire ==
    InitFrom(Builds, {NoFile}, {0}, {DefaultConfig},
             {[c \in Conns |-> IF c = 1 THEN str ELSE NoStream] : str \in WireStreams})

NextWire ==
    \/ LoadSnapshot
    \/ Tick
    \/ WireHandler(1)
    \/ Handler(2, {SetKW})

SpecWire == InitWire /\ [][NextWire]_vars

\* The same server with a client on connection 1 that either closes its end
\* after its bytes or keeps the connection open.
InitOpen ==
    /\ InitCore(Builds, {NoFile}, {0}, {DefaultConfig},
                {[c \in Conns |-> IF c = 1 THEN str ELSE NoStream] : str \in WireStreams})
    /\ closes \in {[c \in Conns |-> c # 1 \/ b] : b \in BOOLEAN}
    /\ bytesIn = NoBytes
    /\ valueOut = NoOutput

SpecOpen == InitOpen /\ [][NextWire]_vars

\* Counts of milliseconds for SET PX: 1, 2, the largest whose nanoseconds fit
\* an int64 (9223372036854), the next one (9223372036855), the largest int64
\* (9223372036854775807) and the next one.
ExpiryCounts ==
    {One, <<50>>,
     <<57, 50, 50, 51, 51, 55, 50, 48, 51, 54, 56, 53, 52>>,
     <<57, 50, 50, 51, 51, 55, 50, 48, 51, 54, 56, 53, 53>>,
     <<57, 50, 50, 51, 51, 55, 50, 48, 51, 54, 56, 53, 52, 55, 55, 53, 56, 48, 55>>,
     <<57, 50, 50, 51, 51, 55, 50, 48, 51, 54, 56, 53, 52, 55, 55, 53, 56, 48, 56>>}

\* The server without a snapshot file; one client sets a key with each of
\* these counts and reads it back.
NextExpiry ==
    \/ LoadSnapshot
    \/ Tick
    \/ Handler(1, {<<NameSET, KeyK, ValV, OptPX, ms>> : ms \in ExpiryCounts}
                      \cup {GetK, KeysAll})

SpecExpiry == Init /\ [][NextExpiry]_vars

(***************************************************************************)
(* The decoders of the snapshot format applied to byte sequences: sizes    *)
(* and strings in each encoding, followed by the bytes they announce.      *)
(***************************************************************************)
\* readSizeEncoded is called on the bytes.
DecodeSize ==
    LET size == readSizeEncoded(bytesIn, 1) IN
    /\ bytesIn # NoBytes
    /\ valueOut = NoOutput
    /\ valueOut' = [op |-> "readSizeEncoded", err |-> size.err, val |-> size.val,
                    str |-> <<>>, pos |-> size.pos]
    /\ UNCHANGED <<build, file, config, now, loadedAt, storage, pc, cur, running, sv,
                   expiresAt, reply, lastSet, racers, want, loadErr, stream, pos, output,
                   malformed, closes, bytesIn>>

\* readStringEncoded is called on the bytes.
DecodeString ==
    LET string == readStringEncoded(bytesIn, 1) IN
    /\ bytesIn # NoBytes
    /\ valueOut = NoOutput
    /\ valueOut' = [op |-> "readStringEncoded", err |-> string.err, val |-> 0,
                    str |-> string.str, pos |-> string.pos]
    /\ UNCHANGED <<build, file, config, now, loadedAt, storage, pc, cur, running, sv,
                   expiresAt, reply, lastSet, racers, want, loadErr, stream, pos, output,
                   malformed, closes, bytesIn>>

\* Strings of n lower-case letters for lengths n on both sides of 64, 192 and
\* 256, the length in every encoding wide enough (1 byte: top bits 00, 2
\* bytes: 01, 5 bytes: 10), each followed by one more byte; first bytes with
\* the top bits 00, 01 and 10 and various low bits, followed by five more bytes
\* (four-byte sizes below 2^31); first bytes with the top bits 11: integers
\* stored as strings (123, 12345, 123456789) and low bits that select no
\* integer width; bytes that end before the size or the string does.
CodecInputs ==
    LET SizePrefix(n, width) ==
            CASE width = 1 -> <<n>>
              [] width = 2 -> <<64 + n \div 256, n % 256>>
              [] width = 5 -> <<128, 0, 0, n \div 256, n % 256>>
        Payload(n) == [i \in 1..n |-> 97 + (i % 26)]
    IN  UNION {{SizePrefix(n, w) \o Payload(n) \o <<255>> :
                   w \in {x \in {1, 2, 5} : (x = 1 => n < 64) /\ (x = 2 => n < 16384)}} :
               n \in {0, 1, 2, 63, 64, 100, 191, 192, 193, 194, 195, 255, 256, 300}}
        \cup {<<b>> \o rest : b \in {0, 5, 63, 64, 65, 127},
                              rest \in {<<0, 0, 1, 0, 9>>, <<127, 255, 255, 255, 9>>,
                                        <<200, 1, 2, 3, 9>>}}
        \cup {<<b>> \o rest : b \in {128, 133, 191},
                              rest \in {<<0, 0, 1, 0, 9>>, <<127, 255, 255, 255, 9>>}}
        \cup {<<192, 123>>, <<192, 255, 7>>, <<193, 57, 48>>, <<194, 21, 205, 91, 7>>,
              <<195, 1, 2>>, <<255, 0>>}
        \cup {<<>>, <<64>>, <<128, 0, 0>>, <<3, 97>>}

\* Snapshots whose key, or whose value, is the integer 123 stored as a string
\* (0xC0 0x7B).
IntegerStringFiles ==
    {RDBMagic \o <<254, 0, 0, 192, 123>> \o RdbString(ValV) \o <<255>>,
     RDBMagic \o <<254, 0, 0>> \o RdbString(KeyK) \o <<192, 123, 255>>}

InitCodec ==
    /\ InitCore(Builds, IntegerStringFiles \cup {RdbFile(RdbEntry(KeyK, ValV))}, {0}, {DefaultConfig}, {[c \in Conns |-> NoStream]})
    /\ closes = [c \in Conns |-> TRUE]
    /\ bytesIn \in CodecInputs
    /\ valueOut = NoOutput

NextCodec ==
    \/ LoadSnapshot
    \/ DecodeSize
    \/ DecodeString

SpecCodec == InitCodec /\ [][NextCodec]_vars

TypeOK ==
    /\ build \in Builds
    /\ now \in 0..MaxTime
    /\ \A c \in Conns : pc[c] \in {"read", "set_now", "set_store", "get_load",
                                     "get_now", "get_delete", "keys_range", "write",
                                     "closed"}

(***************************************************************************)
(* Properties.                                                             *)
(***************************************************************************)
\* Connection c holds the reply of a GET, about to write it.
GetReplying(c) == pc[c] = "write" /\ running[c] = "getCommand"

\* An entry whose deadline has passed at clock reading t (strictly).
Passed(entry, t) == ~IsZero(entry.expiresAt) /\ entry.expiresAt < t

\* C1: a GET k received after a successful SET k v, with no SET on k received
\* or in flight since, replies with the bulk string of v, as long as what that
\* SET stored has no deadline or the clock is still before its deadline.
C1_GetReturnsLatestSet ==
    \A c \in Conns :
        ( /\ GetReplying(c)
          /\ want[c].settled
          /\ want[c].last.set
          /\ IsZero(want[c].last.expiresAt) \/ Before(now, want[c].last.expiresAt) )
        => reply[c] = Bulk(want[c].last.value)

\* C2: when getCommand compares the clock with the deadline of the entry it
\* loaded and the deadline is at or before the clock reading (expiresAt <= now,
\* the instant now = expiresAt included), the GET ends with the null bulk
\* string: it does not reply with the value.
C2_GetNeverReturnsExpired ==
    [][ \A c \in Conns :
          ( /\ pc[c] = "get_now"
            /\ pc'[c] # "get_now"
            /\ ~IsZero(sv[c].expiresAt)
            /\ sv[c].expiresAt <= now )
          => ( \/ pc'[c] = "get_delete"
               \/ pc'[c] = "write" /\ reply'[c] = NullBulk ) ]_vars

\* The keys of the map whose entries' deadlines have not passed at reading t.
LiveKeys(m, t) == {k \in DOMAIN m : ~Passed(m[k], t)}

\* C3: the reply of KEYS * lists exactly the keys that are not expired when
\* the map is ranged over: a key whose deadline has passed is left out.
C3_KeysExcludesExpired ==
    [][ \A c \in Conns :
          (pc[c] = "keys_range" /\ pc'[c] = "write")
          => reply'[c] \in {KeysReply(q) : q \in Orders(LiveKeys(storage, now))} ]_vars

\* C4: the Delete of a GET that observed an expired entry removes no entry
\* that a SET installed after the GET loaded its own: the entry it removes is
\* not one that is still live (without deadline, or with a deadline not passed).
C4_StaleDeleteSparesFreshSet ==
    [][ \A c \in Conns :
          ( /\ pc[c] = "get_delete"
            /\ pc'[c] = "write"
            /\ sv[c].ptr
            /\ KeyOf(c) \in DOMAIN storage )
          => Passed(storage[KeyOf(c)], now) ]_vars

\* C5: a GET received after two overlapping SETs (no PX) on its key have both
\* replied, with no SET on the key since, replies with the bulk string of one
\* of their two values.
C5_OneOfTwoConcurrentSets ==
    \A c \in Conns :
        (GetReplying(c) /\ want[c].settled /\ want[c].racers # {})
        => reply[c] \in {Bulk(v) : v \in want[c].racers}

\* No SET on key k is being handled.
NoSetInFlight(k) == \A d \in Conns : ~SetInFlight(d, k)

\* C8: after SET k v1 PX t and then SET k v2 without PX, the entry of k is v2
\* without deadline from the reply of the second SET until the next SET on k,
\* and a GET k received in that time replies with the bulk string of v2.
C8_SetReplacesDeadline ==
    /\ \A k \in AllKeys :
         ( /\ lastSet[k].set
           /\ lastSet[k].overPX
           /\ IsZero(lastSet[k].expiresAt)
           /\ NoSetInFlight(k) )
         => ( /\ k \in DOMAIN storage
              /\ storage[k] = StoredValue(lastSet[k].value, ZeroTime, TRUE) )
    /\ \A c \in Conns :
         ( /\ GetReplying(c)
           /\ want[c].settled
           /\ want[c].last.set
           /\ want[c].last.overPX
           /\ IsZero(want[c].last.expiresAt) )
         => reply[c] = Bulk(want[c].last.value)

\* The command of c has fewer arguments than its registered minimum or more
\* than its registered maximum.
ArityViolated(cmd) ==
    /\ cmd.command \in DOMAIN registry
    /\ \/ Len(cmd.args) < registry[cmd.command].minArgs
       \/ Len(cmd.args) > registry[cmd.command].maxArgs

\* C6: a registered command received with an argument count below minArgs or
\* above maxArgs is answered "-ERR wrong number of arguments for '<NAME>'
\* command" without its handler being called, and no step the connection takes
\* for it changes the store.
C6_ArityErrorWithoutHandler ==
    /\ [](\A c \in Conns :
            (pc[c] # "read" /\ ArityViolated(cur[c]))
            => ( /\ pc[c] = "write"
                 /\ running[c] = "none"
                 /\ reply[c] = ErrArityHead \o cur[c].command \o ErrArityTail ))
    /\ [][ \A c \in Conns :
             (pc'[c] # pc[c] /\ (ArityViolated(cur[c]) \/ ArityViolated(cur'[c])))
             => storage' = storage ]_vars

\* Some connection holds the arity error of a command with too many arguments
\* while the store holds an entry.
C6_Witness ==
    \E c \in Conns :
        /\ pc[c] = "write"
        /\ ArityViolated(cur[c])
        /\ Len(cur[c].args) > registry[cur[c].command].maxArgs
        /\ reply[c] = ErrArityHead \o cur[c].command \o ErrArityTail
        /\ DOMAIN storage # {}

\* A decimal integer: an optional sign and one or more digits.
IsDecimal(str) ==
    LET body == IF Len(str) > 0 /\ str[1] \in {43, 45} THEN Tail(str) ELSE str
    IN  Len(body) > 0 /\ \A i \in 1..Len(body) : IsDigit(body[i])

\* A decimal integer greater than zero.
IsPositiveDecimal(str) ==
    /\ IsDecimal(str)
    /\ str[1] # 45
    /\ \E i \in 1..Len(str) : str[i] \in 49..57

\* The arguments of a SET that is to be accepted: (key, value), or (key, value,
\* PX in any letter case, a positive count of milliseconds).
WellFormedSet(args) ==
    \/ Len(args) = 2
    \/ /\ Len(args) = 4
       /\ ToUpper(args[3]) = OptPX
       /\ IsPositiveDecimal(args[4])

SetRejected(cmd) == cmd.command = NameSET /\ ~WellFormedSet(cmd.args)

ErrorReplies ==
    {ErrSetArity, ErrUnsupportedOption, ErrInvalidExpiry,
     ErrArityHead \o NameSET \o ErrArityTail}

\* C7: a SET whose arguments are neither (key, value) nor (key, value, PX, a
\* positive count of milliseconds) is answered with an error reply and never
\* reaches the clock or the store: no step the connection takes for it changes
\* the store.
C7_BadSetLeavesStore ==
    /\ [](\A c \in Conns :
            (pc[c] # "read" /\ SetRejected(cur[c]))
            => (pc[c] = "write" /\ reply[c] \in ErrorReplies))
    /\ [][ \A c \in Conns :
             (pc'[c] # pc[c] /\ (SetRejected(cur[c]) \/ SetRejected(cur'[c])))
             => storage' = storage ]_vars

\* A SET with a millisecond count of zero is being answered with an error
\* while the key holds an entry.
C7_Witness ==
    \E c \in Conns :
        /\ pc[c] = "write"
        /\ cur[c].command = NameSET
        /\ Len(cur[c].args) = 4
        /\ cur[c].args[4] = Zero
        /\ reply[c] = ErrInvalidExpiry
        /\ KeyOf(c) \in DOMAIN storage

\* The snapshots of C9: header, select-database opcode, one value-type-0 entry
\* for key k without expiry, with and without the end-of-file opcode.
C9_Files == {RdbFile(RdbEntry(KeyK, ValV)), RdbFileOpenEnded(RdbEntry(KeyK, ValW))}

C9_Value == IF file = RdbFile(RdbEntry(KeyK, ValV)) THEN ValV ELSE ValW

\* C9: after loading such a snapshot, every GET k received while no SET on k
\* has been received replies with the bulk string of the stored value (the
\* first GET and the later ones).
C9_LoadedKeyRetrievable ==
    \A c \in Conns :
        ( /\ file \in C9_Files
          /\ GetReplying(c)
          /\ KeyOf(c) = KeyK
          /\ want[c].settled
          /\ ~want[c].last.set )
        => reply[c] = Bulk(C9_Value)

\* The snapshots of C10: an entry for key k tagged 0xFC with expiry e, alone
\* or after an entry for another key.
C10_Files(e) ==
    {RdbFile(RdbEntryMs(e, KeyK, ValV)),
     RdbFile(RdbEntry(KeyJ, ValW) \o RdbEntryMs(e, KeyK, ValV))}

\* The file holds an entry for k whose millisecond expiry was already in the
\* past when the snapshot was loaded.
C10_ExpiredAtLoad ==
    /\ Started
    /\ \E e \in FileExpiries : file \in C10_Files(e) /\ e < loadedAt

\* C10: a snapshot entry tagged 0xFC whose expiry is in the past at load time
\* is not installed: its key is absent from the store until a SET on it is
\* received, and every GET on it received in that time replies with the null
\* bulk string.
C10_ExpiredEntryNotLoaded ==
    C10_ExpiredAtLoad =>
        /\ (~lastSet[KeyK].set /\ NoSetInFlight(KeyK)) => KeyK \notin DOMAIN storage
        /\ \A c \in Conns :
             ( /\ GetReplying(c)
               /\ KeyOf(c) = KeyK
               /\ want[c].settled
               /\ ~want[c].last.set )
             => reply[c] = NullBulk

\* A GET on the key of an entry that was expired at load time is being
\* answered with the null bulk string.
C10_Witness ==
    /\ C10_ExpiredAtLoad
    /\ \E c \in Conns :
         /\ GetReplying(c)
         /\ KeyOf(c) = KeyK
         /\ want[c].settled
         /\ ~want[c].last.set
         /\ reply[c] = NullBulk

RECURSIVE BulkStrings(_)
\* The bulk strings of the elements, one after the other.
BulkStrings(elems) ==
    IF Len(elems) = 0 THEN <<>> ELSE Bulk(Head(elems)) \o BulkStrings(Tail(elems))

\* The array reply whose elements are the bulk strings of elems.
ArrayOfBulk(elems) == Star \o Itoa(Len(elems)) \o CRLF \o BulkStrings(elems)

\* The reply C11 expects for CONFIG with two arguments, under configuration
\* cfg; parameter names are compared without regard to letter case.
C11_Expected(args, cfg) ==
    IF ToUpper(args[1]) # NameGET THEN {ErrUnknownSubcommand}
    ELSE IF ToLower(args[2]) = ParamDir THEN {ArrayOfBulk(<<ParamDir, cfg.dir>>)}
    ELSE IF ToLower(args[2]) = ParamDbFilename
    THEN {ArrayOfBulk(<<ParamDbFilename, cfg.dbFilename>>)}
    ELSE {ArrayOfBulk(<<>>)}

\* C11: no step changes the configuration, and every CONFIG command is
\* answered from it: GET dir with ["dir", dir], GET dbfilename with
\* ["dbfilename", file name], GET of another parameter with the empty array,
\* and another subcommand with an error reply.
C11_ConfigNeverChanges ==
    /\ [](\A c \in Conns :
            (pc[c] = "write" /\ cur[c].command = NameCONFIG /\ Len(cur[c].args) = 2)
            => (/\ reply[c] \in C11_Expected(cur[c].args, config)
                /\ ToUpper(cur[c].args[1]) # NameGET => reply[c][1] = 45))
    /\ [][config' = config]_vars

\* A server started with flags answers CONFIG GET dir with the directory of
\* the flag, after a SET has been served.
C11_Witness ==
    /\ config.dir = FlagDir
    /\ lastSet[KeyK].set
    /\ \E c \in Conns :
         /\ pc[c] = "write"
         /\ cur[c] = [command |-> NameCONFIG, args |-> <<NameGET, ParamDir>>]
         /\ reply[c] = ArrayOfBulk(<<ParamDir, FlagDir>>)

\* The stream of connection c from its reader's position on.
Unread(c) == SubSeq(stream[c], pos[c], Len(stream[c]))

\* The unread part of c's stream begins with the bytes `bytes`.
BeginsWith(c, bytes) ==
    /\ stream[c] # NoStream
    /\ Len(Unread(c)) >= Len(bytes)
    /\ SubSeq(Unread(c), 1, Len(bytes)) = bytes

\* The frames of the scripts.
WireFrames == UNION {{fs[i] : i \in 1..Len(fs)} : fs \in WireScripts}

\* C12: when the reader of a connection stands at a well-formed frame, the
\* decoding step yields element 0 upper-cased as the command and the other
\* elements, in order and unmodified, as the arguments, and leaves the reader
\* at the first byte after the frame.
C12_WellFormedFrameDecoded ==
    [][ \A c \in Conns : \A f \in WireFrames :
          (pc[c] = "read" /\ BeginsWith(c, RespFrame(f)) /\ pos'[c] # pos[c])
          => ( /\ cur'[c] = [command |-> ToUpper(f[1]), args |-> Tail(f)]
               /\ pos'[c] = pos[c] + Len(RespFrame(f))
               /\ pc'[c] \notin {"read", "closed"}
               /\ malformed'[c] = malformed[c] ) ]_vars

\* The second frame of a stream has been decoded: an ECHO whose argument is
\* itself the bytes of a frame was followed by PING.
C12_Witness ==
    \E c \in Conns :
        /\ stream[c] = RespStream(<< <<NameECHO, PingFrame>>, <<NamePING>> >>)
        /\ pos[c] = Len(stream[c]) + 1
        /\ cur[c] = [command |-> NamePING, args |-> <<>>]
        /\ output[c] = <<Bulk(PingFrame)>>

\* The beginnings of the malformed frames of C13: a first line that is not
\* "*" and a decimal integer of at least 1, or, after a good first line (and
\* a good first element), a line that is not "$" and a decimal integer of at
\* least 0.
C13_MalformedStarts ==
    {h \o CRLF : h \in BadArrayHeaders}
    \cup {Star \o One \o CRLF \o h \o CRLF : h \in BadBulkHeaders}
    \cup {Star \o <<50>> \o CRLF \o RespElements(<<NameECHO>>) \o h \o CRLF :
            h \in BadBulkHeaders}

\* C13: when the reader of a connection stands at a frame whose first line or
\* whose element header is malformed, the decoding step fails with an error
\* that is not end-of-stream and yields no command.
C13_MalformedFrameRejected ==
    [][ \A c \in Conns : \A bad \in C13_MalformedStarts :
          (pc[c] = "read" /\ BeginsWith(c, bad) /\ pos'[c] # pos[c])
          => ( /\ malformed'[c]
               /\ cur'[c] = NoCommand
               /\ reply'[c] = <<>>
               /\ pc'[c] = "read" ) ]_vars

\* The decoder has rejected the element header "$-1" and stands behind it.
C13_Witness ==
    \E c \in Conns :
        /\ stream[c] = Star \o One \o CRLF \o Dollar \o MinusOne \o CRLF \o PingFrame
        /\ pos[c] = 10
        /\ malformed[c]
        /\ pc[c] = "read"

\* C14: once the decoder has reported a malformed frame on a connection, no
\* command of that connection is dispatched and no reply is written to it.
C14_ProtocolErrorAborts ==
    [][ \A c \in Conns :
          malformed[c]
          => ( /\ output'[c] = output[c]
               /\ cur'[c] = NoCommand
               /\ pc'[c] \in {"read", "closed"} ) ]_vars

\* The unread part of c's stream is a proper, non-empty prefix of the frame
\* CutFrame: the client closed in the middle of the frame.
CutShort(c) ==
    /\ stream[c] # NoStream
    /\ Len(Unread(c)) \in 1..(Len(CutFrame) - 1)
    /\ Unread(c) = SubSeq(CutFrame, 1, Len(Unread(c)))

\* C15: a decoding step at the end of the stream reports end-of-stream and
\* ends the command loop without an error; a decoding step on a frame that is
\* cut short reports an error that is not end-of-stream, yields no command and
\* does not end the loop as end-of-stream does.
C15_ExhaustionMidFrameIsError ==
    [][ \A c \in Conns :
          ( /\ pc[c] = "read"
            /\ stream[c] # NoStream
            /\ (pos'[c] # pos[c] \/ pc'[c] # pc[c]) )
          => ( /\ (pos[c] > Len(stream[c]))
                     => (pc'[c] = "closed" /\ malformed'[c] = malformed[c])
               /\ CutShort(c)
                     => ( /\ malformed'[c]
                          /\ cur'[c] = NoCommand
                          /\ pc'[c] = "read" ) ) ]_vars

\* The reply r answers the frame f: PING with +PONG, ECHO with its argument,
\* a stored SET with +OK, GET with a value or the null bulk string, KEYS with
\* an array, an unknown command or a wrong number of arguments with an error.
C16_Answers(f, r) ==
    LET name == ToUpper(f[1])
        args == Tail(f)
    IN  IF name \notin DOMAIN registry \/ ArityViolated([command |-> name, args |-> args])
        THEN r[1] = 45
        ELSE CASE name = NamePING -> r = PONG
               [] name = NameECHO -> r = Bulk(args[1])
               [] name = NameSET  -> r = OK
               [] name = NameGET  -> r \in {NullBulk, Bulk(ValV), Bulk(ValW)}
               [] OTHER           -> r[1] = Star[1]

WellFormedError(r) ==
    /\ Len(r) >= 3
    /\ r[1] = 45
    /\ SubSeq(r, Len(r) - 1, Len(r)) = CRLF
    /\ \A i \in 2..(Len(r) - 2) : r[i] \notin {13, 10}

\* C17: every reply that begins with "-" is "-<text>\r\n" with no CR and no
\* LF in the text.
C17_ErrorReplyOneLine ==
    \A c \in Conns :
        (pc[c] = "write" /\ Len(reply[c]) > 0 /\ reply[c][1] = 45)
        => WellFormedError(reply[c])

\* C18: no connection handler has taken a step before the snapshot loader has
\* finished; the loader runs in one piece while every handler is idle, and
\* never again; and after it only the handlers' own SET and GET steps change
\* the store.
C18_LoadOnceBeforeAccept ==
    /\ [](loadedAt = NotLoaded
            => \A c \in Conns :
                 /\ pc[c] = "read"
                 /\ cur[c] = NoCommand
                 /\ pos[c] = 1
                 /\ output[c] = <<>>)
    /\ [][ /\ loadedAt # NotLoaded => (loadedAt' = loadedAt /\ loadErr' = loadErr)
           /\ loadedAt' # loadedAt => \A c \in Conns : pc[c] = "read" /\ pc'[c] = "read"
           /\ (loadedAt # NotLoaded /\ storage' # storage)
                => \E c \in Conns : pc[c] \in {"set_store", "get_delete"} /\ pc'[c] = "write"
         ]_vars

\* A handler is reading a key that the loader installed.
C18_Witness ==
    /\ file = RdbFile(RdbEntry(KeyK, ValV))
    /\ loadedAt # NotLoaded
    /\ KeyK \in DOMAIN storage
    /\ ~lastSet[KeyK].set
    /\ \E c \in Conns : pc[c] = "get_load"

\* C19: after a snapshot whose decoding failed behind the entry for k, the
\* load error is reported, the server serves connections, the entry for j
\* behind the failure is not in the store, the entry for k stays in the store
\* until a SET replaces it, and a GET k received in that time replies with
\* its value.
C19_PartialLoadKept ==
    (file \in BrokenFiles /\ loadedAt # NotLoaded)
    => /\ loadErr
       /\ ~lastSet[KeyJ].set => KeyJ \notin DOMAIN storage
       /\ (~lastSet[KeyK].set /\ NoSetInFlight(KeyK))
            => (KeyK \in DOMAIN storage /\ storage[KeyK].value = ValV)
       /\ \A c \in Conns :
            ( /\ GetReplying(c)
              /\ KeyOf(c) = KeyK
              /\ want[c].settled
              /\ ~want[c].last.set )
            => reply[c] = Bulk(ValV)

\* The file lacks the 9-byte magic header.
C20_BadHeader ==
    /\ file # NoFile
    /\ \/ Len(file) < 9
       \/ SubSeq(file, 1, 9) # RDBMagic

\* C20: loading a snapshot that does not begin with the 9 bytes REDIS0011
\* fails with an error and installs nothing: the store is empty until a SET
\* stores an entry.
C20_BadHeaderLoadsNothing ==
    (C20_BadHeader /\ loadedAt # NotLoaded)
    => /\ loadErr
       /\ (\A k \in AllKeys : ~lastSet[k].set) => DOMAIN storage = {}

\* A snapshot with the header REDIS0010 and an entry for k was refused, and a
\* GET k is answered with the null bulk string.
C20_Witness ==
    /\ file = BadMagic \o <<254, 0>> \o RdbEntry(KeyK, ValV) \o <<255>>
    /\ loadedAt # NotLoaded
    /\ loadErr
    /\ DOMAIN storage = {}
    /\ \E c \in Conns : GetReplying(c) /\ KeyOf(c) = KeyK /\ reply[c] = NullBulk

\* Nothing has been stored by a SET.
NoSetYet == \A k \in AllKeys : ~lastSet[k].set

\* C21: a snapshot with a byte other than 0xFA, 0xFE and 0xFF at the top level
\* fails to load and installs nothing.
C21_TopLevelByteAborts ==
    (loadedAt # NotLoaded /\ file \in TopByteFiles)
    => (loadErr /\ (NoSetYet => DOMAIN storage = {}))

\* C22: the load of a snapshot whose database section carries 0xFB and two
\* size hints installs the entry that follows them, without an error; the load
\* of a snapshot with 0xC0 after the database index takes 0xC0 as the
\* value type of the first entry and fails, installing nothing.
C22_HintsConsumedNothingSkipped ==
    [][ loadedAt' # loadedAt
        => /\ file \in HintFiles
                => ( /\ ~loadErr'
                     /\ DOMAIN storage' = {KeyK}
                     /\ storage'[KeyK].value = ValV )
           /\ file = RedisBitsFile => (loadErr' /\ DOMAIN storage' = {}) ]_vars

\* C23: a snapshot whose entry-type byte is none of 0xFD, 0xFC, 0xFF, 0x00, or
\* whose value type after an expiry is not 0x00, fails to load and installs
\* nothing.
C23_OddTagAborts ==
    (loadedAt # NotLoaded
       /\ file \in OddTagFiles)
    => (loadErr /\ (NoSetYet => DOMAIN storage = {}))

\* The number of bytes a size takes, by the top two bits of its first byte.
PrefixLen(b) == CASE b \div 64 = 0 -> 1 [] b \div 64 = 1 -> 2 [] b \div 64 = 2 -> 5

\* The size a prefix stands for.
PrefixValue(bs) ==
    CASE bs[1] \div 64 = 0 -> bs[1] % 64
      [] bs[1] \div 64 = 1 -> (bs[1] % 64) * 256 + bs[2]
      [] bs[1] \div 64 = 2 -> bs[2] * 16777216 + bs[3] * 65536 + bs[4] * 256 + bs[5]

\* The bytes start with a whole size whose top bits are 00, 01 or 10.
HasPrefix(bs) == bs # NoBytes /\ Len(bs) >= 1 /\ bs[1] < 192 /\ Len(bs) >= PrefixLen(bs[1])

\* C24: readSizeEncoded returns b & 0x3F for a first byte b with top bits 00,
\* ((b & 0x3F) << 8) | next with top bits 01, and the next four bytes
\* big-endian whatever the low six bits of b with top bits 10, consuming 1, 2
\* and 5 bytes.
C24_SizeDecoded ==
    (valueOut.op = "readSizeEncoded" /\ HasPrefix(bytesIn))
    => ( /\ ~valueOut.err
         /\ valueOut.val = PrefixValue(bytesIn)
         /\ valueOut.pos = PrefixLen(bytesIn[1]) + 1 )

\* A four-byte size behind a first byte with low bits set, and a two-byte size
\* with high bits from the first byte, have been decoded.
C24_Witness ==
    /\ valueOut.op = "readSizeEncoded"
    /\ Len(bytesIn) >= 1
    /\ \/ bytesIn[1] = 191 /\ valueOut.val = 2147483647
       \/ bytesIn[1] = 127 /\ valueOut.val = 16328

\* C25: readStringEncoded on a size with top bits 00, 01 or 10 that stands for
\* n, followed by at least n bytes, returns exactly those n bytes and consumes
\* the size and the n bytes.
C25_RawStringDecoded ==
    ( /\ valueOut.op = "readStringEncoded"
      /\ HasPrefix(bytesIn)
      /\ Len(bytesIn) - PrefixLen(bytesIn[1]) >= PrefixValue(bytesIn) )
    => LET start == PrefixLen(bytesIn[1])
           n     == PrefixValue(bytesIn)
       IN  /\ ~valueOut.err
           /\ valueOut.str = SubSeq(bytesIn, start + 1, start + n)
           /\ valueOut.pos = start + n + 1

\* C26: readStringEncoded on a first byte with top bits 11 returns the decimal
\* text of the next byte (low six bits 0), of the next two bytes little-endian
\* (1) or of the next four (2), and fails for other low bits; a snapshot whose
\* key or value is stored this way loads without an error.
C26_IntegerStringDecoded ==
    /\ ( /\ valueOut.op = "readStringEncoded"
         /\ bytesIn # NoBytes
         /\ Len(bytesIn) >= 1
         /\ bytesIn[1] >= 192 )
       => CASE bytesIn[1] % 64 = 0 /\ Len(bytesIn) >= 2 ->
                 ~valueOut.err /\ valueOut.str = Itoa(bytesIn[2]) /\ valueOut.pos = 3
            [] bytesIn[1] % 64 = 1 /\ Len(bytesIn) >= 3 ->
                 /\ ~valueOut.err
                 /\ valueOut.str = Itoa(bytesIn[2] + 256 * bytesIn[3])
                 /\ valueOut.pos = 4
            [] bytesIn[1] % 64 = 2 /\ Len(bytesIn) >= 5 ->
                 /\ ~valueOut.err
                 /\ valueOut.str = Itoa(bytesIn[2] + 256 * bytesIn[3] + 65536 * bytesIn[4]
                                        + 16777216 * bytesIn[5])
                 /\ valueOut.pos = 6
            [] OTHER -> valueOut.err
    /\ (loadedAt # NotLoaded /\ file \in IntegerStringFiles) => ~loadErr

\* The handler of connection c waits in a read that never returns: the client
\* has sent all its bytes, they do not complete what the decoder is reading,
\* and the client does not close its end.  No later step changes this.
WaitsForEver(c) ==
    /\ pc[c] = "read"
    /\ stream[c] # NoStream
    /\ ~closes[c]
    /\ Starved(stream[c], pos[c])

\* C27: a handler whose decoder has reported a protocol error goes on to leave
\* its loop and close the connection: it is never left waiting for ever in a
\* read, its loop not left and its connection open.
C27_HandlerEventuallyCloses ==
    \A c \in {1} : malformed[c] => ~WaitsForEver(c)

\* C28: after the load, a step that changes the store is the store of a SET
\* that replies +OK, or the removal by a GET of an entry of its key whose
\* deadline has passed.
C28_StoreChangedOnlyBySetAndExpiry ==
    [][ (loadedAt # NotLoaded /\ storage' # storage)
        => \E c \in Conns :
              \/ /\ pc[c] = "set_store"
                 /\ reply'[c] = OK
                 /\ KeyOf(c) \in DOMAIN storage'
                 /\ storage' = MapStore(storage, KeyOf(c), storage'[KeyOf(c)])
              \/ /\ running[c] = "getCommand"
                 /\ pc'[c] = "write"
                 /\ KeyOf(c) \in DOMAIN storage
                 /\ Passed(storage[KeyOf(c)], now)
                 /\ storage' = MapDelete(storage, KeyOf(c)) ]_vars

\* The instant ms milliseconds after the clock reading t (Never when it lies
\* beyond every reading of the clock).
DeadlineOf(t, ms) ==
    IF ToInt(ms) < Never - t THEN t + ToInt(ms) ELSE Never

\* C29: when setCommand computes the deadline of a SET with PX ms, the
\* deadline is the clock reading plus ms milliseconds and lies strictly after
\* the clock reading, for every count the command accepts.
C29_DeadlineAfterSetTime ==
    [][ \A c \in Conns :
          (pc[c] = "set_now" /\ pc'[c] = "set_store")
          => /\ expiresAt'[c] = DeadlineOf(now, ParseInt(cur[c].args[4]).mag)
             /\ expiresAt'[c] > now ]_vars

====
